---- MODULE Spec2Model ----
(***************************************************************************)
(* DataGenie: the LLM output security gate.                                *)
(*                                                                         *)
(* Text is modelled at the level of characters: a string is a sequence of  *)
(* one-character strings.  Regular expressions of the source are kept as   *)
(* sequences of pattern items and evaluated by a backtracking matcher      *)
(* (MatchFrom / Search) with the semantics of Python's re.search.          *)
(*                                                                         *)
(* The specifications share the definitions:                               *)
(*   SpecValidator      a call of SQLSecurityValidator.validate_sql on a   *)
(*                      text, followed by a call on the sanitized SQL it   *)
(*                      returned;                                          *)
(*   SpecValidatorCall  the calls validate_sql admits by its signature:    *)
(*                      any text or None, with or without a context;       *)
(*   SpecDetector       detect_injection and sanitize_input on a text;     *)
(*   SpecMasker         mask_data, detect_pii_types and is_sensitive_data  *)
(*                      of a PIIMasker on a value;                         *)
(*   SpecMaskerTexts    the same calls on texts with several matches;      *)
(*   SpecConstruction   the constructors of the masker and the validator   *)
(*                      on pattern tables that may not compile;            *)
(*   SpecShared         the calls of two callers in flight on the shared   *)
(*                      instances;                                         *)
(*   SpecQuery          the mark_* calls on an AnalysisQuery;              *)
(*   SpecUseCase        ExecuteAnalysisUseCase.execute on a request;       *)
(*   SpecPipeline       the requests served by LLMAnalysisEngine, with the *)
(*                      injection detector, the LLM, the cache and the     *)
(*                      validator on their way.                            *)
(***************************************************************************)
EXTENDS Integers, Sequences, FiniteSets, TLC

VARIABLES
    sql,        \* the SQL text handed to validate_sql
    verdict,    \* Option(SQLValidationResult) of validate_sql(sql)
    reverdict,  \* Option(SQLValidationResult) of validate_sql(verdict.sanitized_sql)
    vpc,        \* position of the validator's caller: "input", "validated", "revalidated", "raised"
    sql_is_none, \* the caller passed None for sql (sql is <<>> then)
    context,    \* Option(the context map of the call), a map being a set of <<key, value>>
    raised,     \* Option(the exception validate_sql let escape)
    \* --- the injection detector (PromptInjectionDetector) ---
    input_text,     \* the text handed to detect_injection and sanitize_input
    input_is_none,  \* the caller passed None for user_input (input_text is <<>> then)
    detected,       \* Option(the answer of detect_injection)
    sanitized,      \* Option(the text sanitize_input returned)
    sanitize_raised, \* Option(the exception sanitize_input raised)
    dpc,            \* position of the detector's caller: "input", "detected", "sanitized"
    \* --- the analysis pipeline (LLMAnalysisEngine, DataGenieLLMProcessor) ---
    has_cache,      \* was the processor built with a cache client
    cache,          \* the cache: per cache key, Option(the sql or code of the stored result)
    question,       \* the question of the request being served
    ppc,            \* position of the request in execute_analysis
    analysis_type,  \* classification.analysis_type of the request
    cleared,        \* detect_injection(question) has returned False in this request
    llm_calls,      \* the LLM calls of this request: purpose, question, cleared before
    llm_sql,        \* Option(result_data.get('sql', '')) of the LLM's answer
    call_verdict,   \* Option(the verdict of validate_sql in this generate_sql_analysis call)
    handed_sql,     \* Option(the SQL generate_sql_analysis returned to its caller)
    handed_code,    \* Option(the code generate_excel_analysis returned to its caller)
    cache_hit,      \* the generate method returned the cached entry
    gen_error,      \* Option(the cause of the LLMProcessingError the generate method raised)
    response,       \* Option(the AnalysisResult returned by execute_analysis)
    \* --- the PII masker (PIIMasker) ---
    mask_input,             \* the value handed to the masker
    masker_min_confidence,  \* self.min_confidence, in hundredths
    masking_result,         \* Option(the MaskingResult of mask_data)
    pii_types,              \* Option(the outcome of detect_pii_types)
    sensitive,              \* Option(the answer of is_sensitive_data)
    mpc,                    \* position of the masker's caller: "input", "masked", "typed", "answered"
    \* --- the construction of the classifiers ---
    uncompilable,   \* the configured patterns re.compile rejects, each <<name of the table, index>>
    masker,         \* Option(the PIIMasker the constructor returned)
    validator,      \* Option(the SQLSecurityValidator the constructor returned)
    init_raised,    \* the classes whose constructor raised re.error
    served,         \* Option(a call served by the built PIIMasker: its text and its answer)
    \* --- calls in flight on the shared classifiers ---
    frames,         \* per caller, the locals of its call: the operation, the argument, the
                    \* place in the method, what it has gathered, and the result once returned
    \* --- the analysis query and the use case that executes it ---
    query,          \* Option(the AnalysisQuery the caller holds: the local query of execute)
    last_call,      \* Option(the last mark_* call: its receiver and what it returned or raised)
    request,        \* the AnalysisRequest handed to ExecuteAnalysisUseCase.execute
    upc,            \* position of execute
    repository,     \* the queries handed to IQueryRepository.save, in their order
    uc_error,       \* Option(the exception caught in execute)
    uc_response,    \* Option(the AnalysisResponse execute returned)
    uc_raised       \* Option(the exception execute raised)

(***************************************************************************)
(* Optional values (Python's Optional[...]): None is the empty set, a      *)
(* present value x is {x}.                                                 *)
(***************************************************************************)
None == {}
Some(x) == {x}
TheVal(o) == CHOOSE x \in o : TRUE

(***************************************************************************)
(* Characters.                                                             *)
(***************************************************************************)
LowerAlpha == <<"a", "b", "c", "d", "e", "f", "g", "h", "i", "j", "k", "l", "m", "n", "o", "p", "q", "r", "s", "t", "u", "v", "w", "x", "y", "z">>
UpperAlpha == <<"A", "B", "C", "D", "E", "F", "G", "H", "I", "J", "K", "L", "M", "N", "O", "P", "Q", "R", "S", "T", "U", "V", "W", "X", "Y", "Z">>
Digits == {"0", "1", "2", "3", "4", "5", "6", "7", "8", "9"}
LowerSet == {LowerAlpha[i] : i \in 1..26}
UpperSet == {UpperAlpha[i] : i \in 1..26}

\* the size ceiling of validate_sql, in characters
MAX_SQL_LENGTH == 10000

\* One sequence element standing for a run of ZeroRunLen digits "0" (a long
\* numeric literal).  It lets a text of about MAX_SQL_LENGTH characters be
\* written down; StrLen counts it with its full width.  A run of this length
\* is a run of word characters and can be part of no literal of any pattern.
ZeroRun == "0{run}"
ZeroRunLen == MAX_SQL_LENGTH - 10

CharWidth(c) == IF c = ZeroRun THEN ZeroRunLen ELSE 1

RECURSIVE StrLen(_)
\* len(s) of Python
StrLen(s) == IF s = <<>> THEN 0 ELSE CharWidth(Head(s)) + StrLen(Tail(s))

ToUpper == [c \in LowerSet |-> UpperAlpha[CHOOSE i \in 1..26 : LowerAlpha[i] = c]]
\* str.upper() on one character
UpperCh(c) == IF c \in LowerSet THEN ToUpper[c] ELSE c
\* str.upper()
Upper(s) == [i \in 1..Len(s) |-> UpperCh(s[i])]

\* the Hangul syllables of the injection patterns, each written by its code point;
\* each is a word character of re
HangulSet == {"U+AC83", "U+ADDC", "U+B2F5", "U+B4E0", "U+B85C", "U+BAA8", "U+BB34", "U+C0AC", "U+C0C8", "U+C2A4", "U+C2DC", "U+C2DD", "U+C5B4", "U+C694", "U+C6A9", "U+C6B4", "U+C704", "U+C744", "U+C751", "U+C758", "U+C774", "U+C78A", "U+C790", "U+C804", "U+C911", "U+C9C0", "U+CE59", "U+D134", "U+D15C", "U+D2B8", "U+D56D", "U+D615"}
IsHangul(c) == c \in HangulSet
\* a lone surrogate, a code point str holds and UTF-8 does not encode
Surrogate == "U+D800"
\* does s.encode() return (it raises UnicodeEncodeError otherwise)
utf8_encodable(s) == \A i \in 1..Len(s) : s[i] # Surrogate

\* \w of re
IsWord(c) ==
    c \in LowerSet \/ c \in UpperSet \/ c \in Digits \/ c = "_" \/ c = ZeroRun \/ IsHangul(c)
\* \s of re, and the characters str.strip() / str.split() treat as blank
IsSpace(c) == c \in {" ", "\n", "\t"}
\* . of re without DOTALL
IsDot(c) == c # "\n"

(***************************************************************************)
(* Regular expressions.  A pattern is a sequence of items:                 *)
(*   [t |-> "lit", cs |-> chars]   the literal text cs                     *)
(*   [t |-> "alt", alts |-> set]   (a|b|...) of literal texts              *)
(*   [t |-> "opt", cs |-> chars]   (cs)?                                   *)
(*   [t |-> "b"]                   \b                                      *)
(*   [t |-> "s*"], [t |-> "s+"]    \s*, \s+                                *)
(*   [t |-> "w+"]                  \w+                                     *)
(*   [t |-> ".*"]                  .* or .*? (no re.DOTALL: . takes no     *)
(*                                 newline)                                *)
(* re.search only asks whether some match exists, so greedy and lazy       *)
(* repetition need not be told apart here.                                 *)
(***************************************************************************)
Lit(cs) == [t |-> "lit", cs |-> cs]
Alt(alts) == [t |-> "alt", alts |-> alts]
Opt(cs) == [t |-> "opt", cs |-> cs]
WB == [t |-> "b"]
WS0 == [t |-> "s*"]
WS1 == [t |-> "s+"]
Word1 == [t |-> "w+"]
DotStar == [t |-> ".*"]

\* does the literal cs stand in s at position i (ic: re.IGNORECASE)
LitAt(s, i, cs, ic) ==
    /\ i + Len(cs) - 1 <= Len(s)
    /\ \A j \in 1..Len(cs) :
          IF ic THEN UpperCh(s[i + j - 1]) = UpperCh(cs[j]) ELSE s[i + j - 1] = cs[j]

\* \b before position i: exactly one of the neighbours is a word character
IsBoundary(s, i) ==
    LET before == i > 1 /\ IsWord(s[i - 1])
        after == i <= Len(s) /\ IsWord(s[i])
    IN before # after

\* the positions j >= from such that s[i..j-1] is a run of characters of class ok
RunEnds(s, i, from, ok(_)) ==
    {j \in from..(Len(s) + 1) : \A m \in i..(j - 1) : ok(s[m])}

RECURSIVE MatchFrom(_, _, _, _, _)
\* do the items k.. of pat match s from position i on
MatchFrom(pat, k, s, i, ic) ==
    IF k > Len(pat) THEN TRUE
    ELSE LET it == pat[k] IN
      CASE it.t = "lit" -> LitAt(s, i, it.cs, ic) /\ MatchFrom(pat, k + 1, s, i + Len(it.cs), ic)
        [] it.t = "alt" -> \E a \in it.alts :
                              LitAt(s, i, a, ic) /\ MatchFrom(pat, k + 1, s, i + Len(a), ic)
        [] it.t = "opt" -> \/ MatchFrom(pat, k + 1, s, i, ic)
                           \/ LitAt(s, i, it.cs, ic) /\ MatchFrom(pat, k + 1, s, i + Len(it.cs), ic)
        [] it.t = "b"   -> IsBoundary(s, i) /\ MatchFrom(pat, k + 1, s, i, ic)
        [] it.t = "s*"  -> \E j \in RunEnds(s, i, i, IsSpace) : MatchFrom(pat, k + 1, s, j, ic)
        [] it.t = "s+"  -> \E j \in RunEnds(s, i, i + 1, IsSpace) : MatchFrom(pat, k + 1, s, j, ic)
        [] it.t = "w+"  -> \E j \in RunEnds(s, i, i + 1, IsWord) : MatchFrom(pat, k + 1, s, j, ic)
        [] it.t = ".*"  -> \E j \in RunEnds(s, i, i, IsDot) : MatchFrom(pat, k + 1, s, j, ic)

\* pattern.search(s) is not None
Search(pat, s, ic) == \E i \in 1..(Len(s) + 1) : MatchFrom(pat, 1, s, i, ic)

\* needle in s (Python's substring test)
Contains(s, needle) == \E i \in 1..(Len(s) + 1) : LitAt(s, i, needle, FALSE)

RECURSIVE RStrip(_)
\* str.rstrip()
RStrip(s) == IF s # <<>> /\ IsSpace(s[Len(s)]) THEN RStrip(SubSeq(s, 1, Len(s) - 1)) ELSE s
RECURSIVE LStrip(_)
\* str.lstrip()
LStrip(s) == IF s # <<>> /\ IsSpace(Head(s)) THEN LStrip(Tail(s)) ELSE s
RECURSIVE RStripSemicolons(_)
\* str.rstrip(';')
RStripSemicolons(s) ==
    IF s # <<>> /\ s[Len(s)] = ";" THEN RStripSemicolons(SubSeq(s, 1, Len(s) - 1)) ELSE s
\* str.strip()
Strip(s) == LStrip(RStrip(s))

\* s.split()[0] for a text that holds a non-blank character
FirstWord(s) ==
    LET t == LStrip(s)
        ends == {j \in 1..Len(t) : IsSpace(t[j])}
        stop == IF ends = {} THEN Len(t) + 1 ELSE CHOOSE j \in ends : \A m \in ends : j <= m
    IN SubSeq(t, 1, stop - 1)

(***************************************************************************)
(* The characters of the string literals of the source.                    *)
(***************************************************************************)
CharsOf ==
    ("INSERT" :> <<"I", "N", "S", "E", "R", "T">>)
    @@ ("UPDATE" :> <<"U", "P", "D", "A", "T", "E">>)
    @@ ("DELETE" :> <<"D", "E", "L", "E", "T", "E">>)
    @@ ("DROP" :> <<"D", "R", "O", "P">>)
    @@ ("CREATE" :> <<"C", "R", "E", "A", "T", "E">>)
    @@ ("ALTER" :> <<"A", "L", "T", "E", "R">>)
    @@ ("TRUNCATE" :> <<"T", "R", "U", "N", "C", "A", "T", "E">>)
    @@ ("EXEC" :> <<"E", "X", "E", "C">>)
    @@ ("EXECUTE" :> <<"E", "X", "E", "C", "U", "T", "E">>)
    @@ ("CALL" :> <<"C", "A", "L", "L">>)
    @@ ("GRANT" :> <<"G", "R", "A", "N", "T">>)
    @@ ("REVOKE" :> <<"R", "E", "V", "O", "K", "E">>)
    @@ ("COMMIT" :> <<"C", "O", "M", "M", "I", "T">>)
    @@ ("ROLLBACK" :> <<"R", "O", "L", "L", "B", "A", "C", "K">>)
    @@ ("SAVEPOINT" :> <<"S", "A", "V", "E", "P", "O", "I", "N", "T">>)
    @@ ("MERGE" :> <<"M", "E", "R", "G", "E">>)
    @@ ("REPLACE" :> <<"R", "E", "P", "L", "A", "C", "E">>)
    @@ ("RENAME" :> <<"R", "E", "N", "A", "M", "E">>)
    @@ ("COMMENT" :> <<"C", "O", "M", "M", "E", "N", "T">>)
    @@ ("LOCK" :> <<"L", "O", "C", "K">>)
    @@ ("UNLOCK" :> <<"U", "N", "L", "O", "C", "K">>)
    @@ ("UNION" :> <<"U", "N", "I", "O", "N">>)
    @@ ("SELECT" :> <<"S", "E", "L", "E", "C", "T">>)
    @@ ("OR" :> <<"O", "R">>)
    @@ ("AND" :> <<"A", "N", "D">>)
    @@ ("SLEEP" :> <<"S", "L", "E", "E", "P">>)
    @@ ("BENCHMARK" :> <<"B", "E", "N", "C", "H", "M", "A", "R", "K">>)
    @@ ("LOAD_FILE" :> <<"L", "O", "A", "D", "_", "F", "I", "L", "E">>)
    @@ ("INTO" :> <<"I", "N", "T", "O">>)
    @@ ("OUTFILE" :> <<"O", "U", "T", "F", "I", "L", "E">>)
    @@ ("DUMPFILE" :> <<"D", "U", "M", "P", "F", "I", "L", "E">>)
    @@ ("COUNT" :> <<"C", "O", "U", "N", "T">>)
    @@ ("FROM" :> <<"F", "R", "O", "M">>)
    @@ ("information_schema" :> <<"i", "n", "f", "o", "r", "m", "a", "t", "i", "o", "n", "_", "s", "c", "h", "e", "m", "a">>)
    @@ ("mysql." :> <<"m", "y", "s", "q", "l", ".">>)
    @@ ("pg_" :> <<"p", "g", "_">>)
    @@ ("sys." :> <<"s", "y", "s", ".">>)
    @@ ("LIMIT" :> <<"L", "I", "M", "I", "T">>)
    @@ (" LIMIT 1000" :> <<" ", "L", "I", "M", "I", "T", " ", "1", "0", "0", "0">>)
    @@ ("1" :> <<"1">>)
    @@ ("=" :> <<"=">>)
    @@ ("'" :> <<"'">>)
    @@ ("(" :> <<"(">>)
    @@ (")" :> <<")">>)
    @@ ("*" :> <<"*">>)
    @@ (";" :> <<";">>)
    @@ ("--" :> <<"-", "-">>)
    @@ ("/*" :> <<"/", "*">>)
    @@ ("*/" :> <<"*", "/">>)

\* the literal text of w, as a pattern item
L(w) == Lit(CharsOf[w])
\* the group (w1|w2|...), as a pattern item
Group(ws) == Alt({CharsOf[w] : w \in ws})

(***************************************************************************)
(* SQL security validator (app/core/security/sql_validator.py).            *)
(***************************************************************************)
LOW == "low"
MEDIUM == "medium"
HIGH == "high"
CRITICAL == "critical"
SecurityThreatLevel == {LOW, MEDIUM, HIGH, CRITICAL}

FORBIDDEN_SQL_KEYWORDS == <<
    "INSERT", "UPDATE", "DELETE", "DROP", "CREATE", "ALTER",
    "TRUNCATE", "EXEC", "EXECUTE", "CALL", "GRANT", "REVOKE",
    "COMMIT", "ROLLBACK", "SAVEPOINT", "MERGE", "REPLACE", "RENAME",
    "COMMENT", "LOCK", "UNLOCK"
>>

\* each compiled with re.IGNORECASE | re.MULTILINE; src is the pattern's text
DANGEROUS_SQL_PATTERNS == <<
    [src |-> "\\b(INSERT|UPDATE|DELETE|DROP|CREATE|ALTER|TRUNCATE|REPLACE)\\b",
     re |-> <<WB, Group({"INSERT", "UPDATE", "DELETE", "DROP", "CREATE", "ALTER", "TRUNCATE", "REPLACE"}), WB>>],
    [src |-> "\\b(EXEC|EXECUTE|CALL)\\b",
     re |-> <<WB, Group({"EXEC", "EXECUTE", "CALL"}), WB>>],
    [src |-> ";\\s*(INSERT|UPDATE|DELETE|DROP|CREATE|ALTER|TRUNCATE)",
     re |-> <<L(";"), WS0, Group({"INSERT", "UPDATE", "DELETE", "DROP", "CREATE", "ALTER", "TRUNCATE"})>>],
    [src |-> "--",
     re |-> <<L("--")>>],
    [src |-> "/\\*.*?\\*/",
     re |-> <<L("/*"), DotStar, L("*/")>>],
    [src |-> "\\bUNION\\s+SELECT\\b",
     re |-> <<WB, L("UNION"), WS1, L("SELECT"), WB>>],
    [src |-> "\\bOR\\s+1\\s*=\\s*1\\b",
     re |-> <<WB, L("OR"), WS1, L("1"), WS0, L("="), WS0, L("1"), WB>>],
    [src |-> "\\bAND\\s+1\\s*=\\s*1\\b",
     re |-> <<WB, L("AND"), WS1, L("1"), WS0, L("="), WS0, L("1"), WB>>],
    [src |-> "'.*?OR.*?'.*?=.*?'",
     re |-> <<L("'"), DotStar, L("OR"), DotStar, L("'"), DotStar, L("="), DotStar, L("'")>>],
    [src |-> "\\bSLEEP\\s*\\(",
     re |-> <<WB, L("SLEEP"), WS0, L("(")>>],
    [src |-> "\\bBENCHMARK\\s*\\(",
     re |-> <<WB, L("BENCHMARK"), WS0, L("(")>>],
    [src |-> "\\bLOAD_FILE\\s*\\(",
     re |-> <<WB, L("LOAD_FILE"), WS0, L("(")>>],
    [src |-> "\\bINTO\\s+OUTFILE\\b",
     re |-> <<WB, L("INTO"), WS1, L("OUTFILE"), WB>>],
    [src |-> "\\bINTO\\s+DUMPFILE\\b",
     re |-> <<WB, L("INTO"), WS1, L("DUMPFILE"), WB>>]
>>

\* each compiled with re.IGNORECASE | re.MULTILINE
SUSPICIOUS_PATTERNS == <<
    [src |-> "\\bSELECT\\s+\\*\\s+FROM\\s+\\w+\\s*;?\\s*--",
     re |-> <<WB, L("SELECT"), WS1, L("*"), WS1, L("FROM"), WS1, Word1, WS0, Opt(CharsOf[";"]), WS0, L("--")>>],
    [src |-> "\\bSELECT\\s+COUNT\\s*\\(\\s*\\*\\s*\\)\\s+FROM\\s+information_schema",
     re |-> <<WB, L("SELECT"), WS1, L("COUNT"), WS0, L("("), WS0, L("*"), WS0, L(")"), WS1, L("FROM"), WS1, L("information_schema")>>],
    [src |-> "\\bSELECT\\s+.*\\s+FROM\\s+mysql\\.",
     re |-> <<WB, L("SELECT"), WS1, DotStar, WS1, L("FROM"), WS1, L("mysql.")>>],
    [src |-> "\\bSELECT\\s+.*\\s+FROM\\s+pg_",
     re |-> <<WB, L("SELECT"), WS1, DotStar, WS1, L("FROM"), WS1, L("pg_")>>],
    [src |-> "\\bSELECT\\s+.*\\s+FROM\\s+sys\\.",
     re |-> <<WB, L("SELECT"), WS1, DotStar, WS1, L("FROM"), WS1, L("sys.")>>]
>>


\* violation and warning messages: msg names the message text, arg the keyword
\* or the pattern text formatted into it
Message(msg, arg) == [msg |-> msg, arg |-> arg]
\* "빈 SQL 쿼리는 허용되지 않습니다"
MsgEmptySql == Message("empty_sql_not_allowed", "")
\* "SELECT 쿼리만 허용됩니다"
MsgSelectOnly == Message("only_select_allowed", "")
\* "쿼리가 너무 깁니다 (최대 10KB)"
MsgTooLong == Message("query_too_long", "")
\* "금지된 SQL 키워드 감지: {keyword}"
MsgForbiddenKeyword(keyword) == Message("forbidden_keyword", keyword)
\* "위험한 SQL 패턴 감지: {pattern}"
MsgDangerousPattern(src) == Message("dangerous_pattern", src)
\* "의심스러운 SQL 패턴: {pattern}"
MsgSuspiciousPattern(src) == Message("suspicious_pattern", src)

SQLValidationResult(is_safe, threat_level, violations, sanitized_sql, warnings) ==
    [is_safe |-> is_safe, threat_level |-> threat_level, violations |-> violations,
     sanitized_sql |-> sanitized_sql, warnings |-> warnings]

has_violations(r) == Len(r.violations) > 0

is_execution_allowed(r) == r.is_safe /\ r.threat_level # CRITICAL

\* one message per keyword found as a whole word in sql.upper(), in list order
check_forbidden_keywords(s) ==
    LET sql_upper == Upper(s)
        found(keyword) == Search(<<WB, L(keyword), WB>>, sql_upper, FALSE)
        hits == SelectSeq(FORBIDDEN_SQL_KEYWORDS, found)
    IN [i \in 1..Len(hits) |-> MsgForbiddenKeyword(hits[i])]

\* one message per dangerous pattern that matches somewhere, in list order
check_dangerous_patterns(s) ==
    LET found(p) == Search(p.re, s, TRUE)
        hits == SelectSeq(DANGEROUS_SQL_PATTERNS, found)
    IN [i \in 1..Len(hits) |-> MsgDangerousPattern(hits[i].src)]

\* one warning per suspicious pattern that matches somewhere, in list order
check_suspicious_patterns(s) ==
    LET found(p) == Search(p.re, s, TRUE)
        hits == SelectSeq(SUSPICIOUS_PATTERNS, found)
    IN [i \in 1..Len(hits) |-> MsgSuspiciousPattern(hits[i].src)]

RECURSIVE RemoveBlockComments(_)
\* re.sub(r'/\*.*?\*/', '', s, flags=re.DOTALL): each "/*" that has a "*/"
\* after it is removed up to the nearest such "*/", scanning left to right
RemoveBlockComments(s) ==
    LET closes(i) == {j \in (i + 2)..Len(s) : LitAt(s, j, CharsOf["*/"], FALSE)}
        opens == {i \in 1..Len(s) : LitAt(s, i, CharsOf["/*"], FALSE) /\ closes(i) # {}}
    IN IF opens = {} THEN s
       ELSE LET i == CHOOSE x \in opens : \A y \in opens : x <= y
                j == CHOOSE x \in closes(i) : \A y \in closes(i) : x <= y
            IN SubSeq(s, 1, i - 1) \o RemoveBlockComments(SubSeq(s, j + 2, Len(s)))

RECURSIVE RemoveLineComments(_)
\* re.sub(r'--.*$', '', s, flags=re.MULTILINE): each "--" is removed up to the
\* end of its line, the newline is kept
RemoveLineComments(s) ==
    LET starts == {i \in 1..Len(s) : LitAt(s, i, CharsOf["--"], FALSE)}
    IN IF starts = {} THEN s
       ELSE LET i == CHOOSE x \in starts : \A y \in starts : x <= y
                nls == {j \in i..Len(s) : s[j] = "\n"}
                e == IF nls = {} THEN Len(s) + 1 ELSE CHOOSE x \in nls : \A y \in nls : x <= y
            IN SubSeq(s, 1, i - 1) \o RemoveLineComments(SubSeq(s, e, Len(s)))

\* is the first word, comments and surrounding blanks removed, SELECT
is_select_query(s) ==
    LET cleaned_sql == Strip(RemoveLineComments(RemoveBlockComments(s)))
    IN IF cleaned_sql = <<>> THEN FALSE
       ELSE Upper(FirstWord(cleaned_sql)) = CharsOf["SELECT"]

\* a faulty variant of ensure_limit_clause: the cap is appended without the
\* blank that separates it from the query
ensure_limit_clause_unseparated(s) ==
    LET sql_upper == Upper(s)
    IN IF Contains(sql_upper, CharsOf["LIMIT"]) THEN s
       ELSE RStripSemicolons(RStrip(s)) \o Tail(CharsOf[" LIMIT 1000"])

\* the query itself when "LIMIT" occurs in sql.upper(), else the query without
\* trailing blanks and semicolons, followed by " LIMIT 1000"
ensure_limit_clause(s) ==
    LET sql_upper == Upper(s)
    IN IF Contains(sql_upper, CharsOf["LIMIT"]) THEN s
       ELSE RStripSemicolons(RStrip(s)) \o CharsOf[" LIMIT 1000"]

\* lines 124-126: a forbidden keyword raises the level to CRITICAL
raise_for_keywords(threat_level, keyword_violations) ==
    IF keyword_violations # <<>> THEN CRITICAL ELSE threat_level

\* lines 130-133: a dangerous pattern raises the level to HIGH unless it is CRITICAL
raise_for_patterns(threat_level, pattern_violations) ==
    IF pattern_violations # <<>> /\ threat_level # CRITICAL THEN HIGH ELSE threat_level

\* a faulty variant of raise_for_suspicious: the level is set to MEDIUM
\* whatever it was
raise_for_suspicious_unguarded(threat_level, suspicious_warnings) ==
    IF suspicious_warnings # <<>> THEN MEDIUM ELSE threat_level

\* lines 137-140: a suspicious pattern raises the level LOW to MEDIUM
raise_for_suspicious(threat_level, suspicious_warnings) ==
    IF suspicious_warnings # <<>> /\ threat_level = LOW THEN MEDIUM ELSE threat_level

\* lines 143-145: a statement that is no SELECT sets the level to CRITICAL
raise_for_non_select(threat_level, not_select) ==
    IF not_select THEN CRITICAL ELSE threat_level

\* lines 148-150: a text longer than the ceiling sets the level to HIGH
raise_for_length(threat_level, too_long) ==
    IF too_long THEN HIGH ELSE threat_level

\* the stages 1 to 5 of validate_sql, in their order: the violations, the
\* warnings and the threat level they leave
run_checks(s) ==
    LET keyword_violations == check_forbidden_keywords(s)
        t1 == raise_for_keywords(LOW, keyword_violations)
        pattern_violations == check_dangerous_patterns(s)
        t2 == raise_for_patterns(t1, pattern_violations)
        suspicious_warnings == check_suspicious_patterns(s)
        t3 == raise_for_suspicious(t2, suspicious_warnings)
        not_select == ~is_select_query(s)
        t4 == raise_for_non_select(t3, not_select)
        too_long == StrLen(s) > MAX_SQL_LENGTH
        t5 == raise_for_length(t4, too_long)
    IN [violations |-> keyword_violations \o pattern_violations
                        \o (IF not_select THEN <<MsgSelectOnly>> ELSE <<>>)
                        \o (IF too_long THEN <<MsgTooLong>> ELSE <<>>),
        warnings |-> suspicious_warnings,
        threat_level |-> t5]

\* a faulty variant of assemble_verdict: is_safe is taken from the threat
\* level instead of the violations
assemble_verdict_by_level(s, checks) ==
    SQLValidationResult(
        checks.threat_level # CRITICAL,
        checks.threat_level,
        checks.violations,
        IF checks.violations = <<>> THEN Some(ensure_limit_clause(s)) ELSE None,
        checks.warnings)

\* the verdict on a text that is not blank: safe exactly without violations,
\* the sanitized SQL only then (lines 152-164)
assemble_verdict(s, checks) ==
    SQLValidationResult(
        Len(checks.violations) = 0,
        checks.threat_level,
        checks.violations,
        IF checks.violations = <<>> THEN Some(ensure_limit_clause(s)) ELSE None,
        checks.warnings)

\* a faulty variant of validate_sql: a blank text goes through the stages
\* like any other
validate_sql_without_short_circuit(s) ==
    assemble_verdict(s, run_checks(s))

\* a blank text is answered at once (warnings keeps its default None, written
\* <<>> here); any other text goes through the stages
validate_sql(s) ==
    IF s = <<>> \/ Strip(s) = <<>>
    THEN SQLValidationResult(FALSE, HIGH, <<MsgEmptySql>>, None, <<>>)
    ELSE assemble_verdict(s, run_checks(s))

\* _log_security_event: the name of the exception it raises, if any.  The
\* event is built from sql.encode() and, when there is a context map, from
\* its user_id and connection_id (a missing key reads as None); the
\* violations and warnings are only counted.
log_security_event(s, ctx) ==
    IF utf8_encodable(s) THEN None ELSE Some("UnicodeEncodeError")

\* a call validate_sql(sql, context): what it returns or what it raises.  A
\* sql of None is answered like the empty text; a text that is not blank
\* goes through the stages and is logged before the verdict is returned.
call_validate_sql(is_none, s, ctx) ==
    LET text == IF is_none THEN <<>> ELSE s
        e == IF Strip(text) = <<>> THEN None ELSE log_security_event(text, ctx)
    IN IF e # None THEN [raised |-> e, result |-> None]
       ELSE [raised |-> None, result |-> Some(validate_sql(text))]

(***************************************************************************)
(* Prompt injection detector (app/core/nlp/prompt_templates.py).  A Hangul *)
(* syllable is one character, written by its code point, and so is the     *)
(* backtick (U+0060).                                                      *)
(***************************************************************************)
CharsOfPrompt ==
    ("U+C774U+C804" :> <<"U+C774", "U+C804">>)    \* Korean: previous
    @@ ("U+C9C0U+C2DCU+C0ACU+D56D" :> <<"U+C9C0", "U+C2DC", "U+C0AC", "U+D56D">>)    \* Korean: instructions
    @@ ("U+C744" :> <<"U+C744">>)    \* Korean: object particle
    @@ ("U+BB34U+C2DC" :> <<"U+BB34", "U+C2DC">>)    \* Korean: ignore
    @@ ("U+C704" :> <<"U+C704">>)    \* Korean: above
    @@ ("U+C758" :> <<"U+C758">>)    \* Korean: possessive particle
    @@ ("U+BAA8" :> <<"U+BAA8">>)    \* Korean: all, first syllable
    @@ ("U+B4E0" :> <<"U+B4E0">>)    \* Korean: all, second syllable
    @@ ("U+AC83" :> <<"U+AC83">>)    \* Korean: thing
    @@ ("U+C78AU+C5B4" :> <<"U+C78A", "U+C5B4">>)    \* Korean: forget
    @@ ("U+C0C8U+B85C" :> <<"U+C0C8", "U+B85C">>)    \* Korean: new, first syllables
    @@ ("U+C6B4" :> <<"U+C6B4">>)    \* Korean: new, last syllable
    @@ ("U+C9C0U+C2DCU+C0AC" :> <<"U+C9C0", "U+C2DC", "U+C0AC">>)    \* Korean: instructions, first syllables
    @@ ("U+D56D" :> <<"U+D56D">>)    \* Korean: instructions, last syllable
    @@ ("U+C2DCU+C2A4U+D15C" :> <<"U+C2DC", "U+C2A4", "U+D15C">>)    \* Korean: system
    @@ ("U+C5B4U+C2DCU+C2A4U+D134U+D2B8" :> <<"U+C5B4", "U+C2DC", "U+C2A4", "U+D134", "U+D2B8">>)    \* Korean: assistant
    @@ ("U+C0ACU+C6A9U+C790" :> <<"U+C0AC", "U+C6A9", "U+C790">>)    \* Korean: user
    @@ ("U+C911U+C694" :> <<"U+C911", "U+C694">>)    \* Korean: important
    @@ ("U+ADDC" :> <<"U+ADDC">>)    \* Korean: rule, first syllable
    @@ ("U+CE59" :> <<"U+CE59">>)    \* Korean: rule, second syllable
    @@ ("U+C751U+B2F5" :> <<"U+C751", "U+B2F5">>)    \* Korean: response
    @@ ("U+D615U+C2DD" :> <<"U+D615", "U+C2DD">>)    \* Korean: format
    @@ ("CRITICAL" :> <<"C", "R", "I", "T", "I", "C", "A", "L">>)
    @@ ("RULE" :> <<"R", "U", "L", "E">>)
    @@ ("S" :> <<"S">>)
    @@ ("RESPONSE" :> <<"R", "E", "S", "P", "O", "N", "S", "E">>)
    @@ ("FORMAT" :> <<"F", "O", "R", "M", "A", "T">>)
    @@ ("ignore" :> <<"i", "g", "n", "o", "r", "e">>)
    @@ ("previous" :> <<"p", "r", "e", "v", "i", "o", "u", "s">>)
    @@ ("instructions" :> <<"i", "n", "s", "t", "r", "u", "c", "t", "i", "o", "n", "s">>)
    @@ ("forget" :> <<"f", "o", "r", "g", "e", "t">>)
    @@ ("everything" :> <<"e", "v", "e", "r", "y", "t", "h", "i", "n", "g">>)
    @@ ("above" :> <<"a", "b", "o", "v", "e">>)
    @@ (":" :> <<":">>)
    @@ ("U+0060U+0060U+0060" :> <<"U+0060", "U+0060", "U+0060">>)    \* three backticks
    @@ ("<|" :> <<"<", "|">>)
    @@ ("|>" :> <<"|", ">">>)

P(w) == Lit(CharsOfPrompt[w])
POpt(w) == Opt(CharsOfPrompt[w])

\* each compiled with re.IGNORECASE | re.MULTILINE
INJECTION_PATTERNS == <<
    <<P("U+C774U+C804"), WS0, P("U+C9C0U+C2DCU+C0ACU+D56D"), POpt("U+C744"), WS0, P("U+BB34U+C2DC")>>,    \* ignore the previous instructions (Korean)
    <<P("U+C704"), POpt("U+C758"), WS0, P("U+BAA8"), POpt("U+B4E0"), WS0, P("U+AC83"), POpt("U+C744"), WS0, P("U+C78AU+C5B4")>>,    \* forget everything above (Korean)
    <<P("U+C0C8U+B85C"), POpt("U+C6B4"), WS0, P("U+C9C0U+C2DCU+C0AC"), POpt("U+D56D"), P(":")>>,    \* new instructions: (Korean)
    <<P("U+C2DCU+C2A4U+D15C"), WS0, P(":")>>,    \* system: (Korean)
    <<P("U+C5B4U+C2DCU+C2A4U+D134U+D2B8"), WS0, P(":")>>,    \* assistant: (Korean)
    <<P("U+C0ACU+C6A9U+C790"), WS0, P(":")>>,    \* user: (Korean)
    <<P("U+C911U+C694"), WS0, P("U+ADDC"), POpt("U+CE59"), P(":")>>,    \* important rules: (Korean)
    <<P("U+C751U+B2F5"), WS0, P("U+D615U+C2DD")>>,    \* response format (Korean)
    <<P("U+0060U+0060U+0060"), DotStar, P("U+0060U+0060U+0060")>>,    \* a code block: three backticks, .*?, three backticks
    <<P("<|"), DotStar, P("|>")>>,    \* a special token: <| .*? |>
    <<P("CRITICAL"), WS1, P("RULE"), POpt("S"), P(":")>>,    \* CRITICAL\s+RULES?:
    <<P("RESPONSE"), WS1, P("FORMAT")>>,    \* RESPONSE\s+FORMAT
    <<P("ignore"), WS1, P("previous"), WS1, P("instructions")>>,    \* ignore\s+previous\s+instructions
    <<P("forget"), WS1, P("everything"), WS1, P("above")>>    \* forget\s+everything\s+above
>>

\* is some injection pattern found in user_input; a text that is empty (or no
\* text at all) is answered FALSE before any pattern is tried
detect_injection(user_input) ==
    IF user_input = <<>> THEN FALSE
    ELSE \E i \in 1..Len(INJECTION_PATTERNS) : Search(INJECTION_PATTERNS[i], user_input, TRUE)

\* a call detect_injection(user_input): None, like any value that is no
\* text, is answered False
call_detect_injection(is_none, s) ==
    IF is_none THEN FALSE ELSE detect_injection(s)

RECURSIVE CollapseWhitespace(_)
\* re.sub(r'\s+', ' ', s): every run of blanks becomes one space
CollapseWhitespace(s) ==
    IF s = <<>> THEN <<>>
    ELSE IF IsSpace(Head(s))
    THEN <<" ">> \o CollapseWhitespace(LStrip(s))
    ELSE <<Head(s)>> \o CollapseWhitespace(Tail(s))

\* a faulty variant of call_sanitize_input: the text is not stripped before
\* its runs of blanks are collapsed
call_sanitize_input_unstripped(is_none, s) ==
    IF call_detect_injection(is_none, s)
    THEN [raised |-> Some("ValueError"), result |-> None]
    ELSE IF is_none
    THEN [raised |-> Some("AttributeError"), result |-> None]
    ELSE [raised |-> None, result |-> Some(CollapseWhitespace(s))]

\* a call sanitize_input(user_input): the text it returns or the exception it
\* raises.  A detection raises ValueError; None has no strip().
call_sanitize_input(is_none, s) ==
    IF call_detect_injection(is_none, s)
    THEN [raised |-> Some("ValueError"), result |-> None]
    ELSE IF is_none
    THEN [raised |-> Some("AttributeError"), result |-> None]
    ELSE [raised |-> None, result |-> Some(CollapseWhitespace(Strip(s)))]

RECURSIVE TextsOf(_, _)
\* the texts made of at most n pieces of frags
TextsOf(frags, n) ==
    IF n = 0 THEN {<<>>}
    ELSE LET shorter == TextsOf(frags, n - 1)
         IN shorter \cup {t \o f : t \in shorter, f \in frags}

(***************************************************************************)
(* The calls of the detector: a text of up to MaxPromptFrags pieces, or    *)
(* None, is handed to detect_injection and to sanitize_input.              *)
(***************************************************************************)
MaxPromptFrags == 3

PromptFragments == {
    <<"s", "h", "o", "w">>,
    <<"S", "y", "s", "t", "e", "m">>,
    <<"u", "s", "e", "r">>,
    <<"m", "e", " ", "\n", "a", "l", "l">>,
    CharsOfPrompt["U+C2DCU+C2A4U+D15C"],
    <<":">>,
    <<" ">>,
    <<"\n">>,
    <<"\t", " ">>,
    CharsOfPrompt["U+0060U+0060U+0060"],
    <<"<", "|">>,
    <<"|", ">">>
}

PromptInputs == TextsOf(PromptFragments, MaxPromptFrags)

(***************************************************************************)
(* PII masker (app/core/security/pii_masker.py).                           *)
(*                                                                         *)
(* The masker needs the span of every match, so its patterns are evaluated *)
(* by a second matcher, MatchEnd, which follows the order in which re      *)
(* tries the alternatives: a greedy repetition takes the longest run first *)
(* and gives characters back one at a time, a group of alternatives is     *)
(* tried from left to right.  A pattern is a sequence of items:            *)
(*   [t |-> "b"]                          \b                               *)
(*   [t |-> "rep", cls, lo, hi]           [cls]{lo,hi}                     *)
(*   [t |-> "rep+", cls, lo]              [cls]{lo,}                       *)
(*   [t |-> "alts", alts |-> sequence]    (?:a|b|...) of literal texts     *)
(* A group repeated a fixed number of times is written out that often.     *)
(***************************************************************************)
Rep(cls, lo, hi) == [t |-> "rep", cls |-> cls, lo |-> lo, hi |-> hi]
RepFrom(cls, lo) == [t |-> "rep+", cls |-> cls, lo |-> lo]
One(c) == Rep({c}, 1, 1)
AltSeq(alts) == [t |-> "alts", alts |-> alts]

ToLower == [c \in UpperSet |-> LowerAlpha[CHOOSE i \in 1..26 : UpperAlpha[i] = c]]
\* str.lower() on one character
LowerCh(c) == IF c \in UpperSet THEN ToLower[c] ELSE c

\* is c a character of the class cls (ic: re.IGNORECASE)
InClass(c, cls, ic) == c \in cls \/ (ic /\ (UpperCh(c) \in cls \/ LowerCh(c) \in cls))

RECURSIVE RunLen(_, _, _, _)
\* the length of the longest run of characters of cls that starts at position i
RunLen(s, i, cls, ic) ==
    IF i <= Len(s) /\ InClass(s[i], cls, ic) THEN 1 + RunLen(s, i + 1, cls, ic) ELSE 0

RECURSIVE MatchEnd(_, _, _, _, _)
RECURSIVE TryRep(_, _, _, _, _, _, _)
RECURSIVE TryAlts(_, _, _, _, _, _)
\* the position after the match of the items k.. of pat that re finds from
\* position i on, 0 when there is none
MatchEnd(pat, k, s, i, ic) ==
    IF k > Len(pat) THEN i
    ELSE LET it == pat[k] IN
      CASE it.t = "b"    -> IF IsBoundary(s, i) THEN MatchEnd(pat, k + 1, s, i, ic) ELSE 0
        [] it.t = "rep"  -> LET run == RunLen(s, i, it.cls, ic)
                            IN TryRep(pat, k, s, i, ic, IF run < it.hi THEN run ELSE it.hi, it.lo)
        [] it.t = "rep+" -> TryRep(pat, k, s, i, ic, RunLen(s, i, it.cls, ic), it.lo)
        [] it.t = "alts" -> TryAlts(pat, k, s, i, ic, 1)

\* item k takes n characters, then n - 1, ... down to lo, until the rest matches
TryRep(pat, k, s, i, ic, n, lo) ==
    IF n < lo THEN 0
    ELSE LET e == MatchEnd(pat, k + 1, s, i + n, ic)
         IN IF e # 0 THEN e ELSE TryRep(pat, k, s, i, ic, n - 1, lo)

\* item k takes its alternative a, then a + 1, ..., until the rest matches
TryAlts(pat, k, s, i, ic, a) ==
    IF a > Len(pat[k].alts) THEN 0
    ELSE LET lit == pat[k].alts[a]
             e == IF LitAt(s, i, lit, ic) THEN MatchEnd(pat, k + 1, s, i + Len(lit), ic) ELSE 0
         IN IF e # 0 THEN e ELSE TryAlts(pat, k, s, i, ic, a + 1)

RECURSIVE FindFrom(_, _, _, _)
\* list(pattern.finditer(s)) from position i on: the matches from left to
\* right, none overlapping another; a match is the span start .. stop - 1
FindFrom(pat, s, i, ic) ==
    IF i > Len(s) + 1 THEN <<>>
    ELSE LET e == MatchEnd(pat, 1, s, i, ic)
         IN IF e = 0 THEN FindFrom(pat, s, i + 1, ic)
            ELSE <<[start |-> i, stop |-> e]>> \o FindFrom(pat, s, IF e > i THEN e ELSE i + 1, ic)

\* list(pattern.finditer(s))
FindIter(pat, s, ic) == FindFrom(pat, s, 1, ic)

\* '*' * n
Stars(n) == [i \in 1..n |-> "*"]
\* s[a:] and s[-n:] of Python, for 0 <= a and 0 < n
DropFirst(s, a) == SubSeq(s, a + 1, Len(s))
TakeLast(s, n) == IF n >= Len(s) THEN s ELSE SubSeq(s, Len(s) - n + 1, Len(s))
\* s[:n]
TakeFirst(s, n) == SubSeq(s, 1, IF n < Len(s) THEN n ELSE Len(s))

\* the position of the first c in s, 0 when there is none
IndexOf(s, c) ==
    LET at == {i \in 1..Len(s) : s[i] = c}
    IN IF at = {} THEN 0 ELSE CHOOSE i \in at : \A j \in at : i <= j

RECURSIVE SplitAll(_, _)
\* s.split(c)
SplitAll(s, c) ==
    LET i == IndexOf(s, c)
    IN IF i = 0 THEN <<s>> ELSE <<SubSeq(s, 1, i - 1)>> \o SplitAll(DropFirst(s, i), c)

\* re.sub(r'\D', '', s)
DigitsOf(s) == SelectSeq(s, LAMBDA c : c \in Digits)

Letters == LowerSet \cup UpperSet
\* \d of re
D(lo, hi) == Rep(Digits, lo, hi)

\* PII_PATTERNS in the order of the dict, a type written by the value of its
\* PIIType member; each pattern is compiled with re.IGNORECASE; a confidence
\* is written in hundredths
PII_PATTERNS == <<
    [pii_type |-> "email", confidence |-> 95,
     pattern |-> <<WB, RepFrom(Letters \cup Digits \cup {".", "_", "%", "+", "-"}, 1), One("@"),
                   RepFrom(Letters \cup Digits \cup {".", "-"}, 1), One("."),
                   RepFrom(Letters \cup {"|"}, 2), WB>>],
    [pii_type |-> "phone", confidence |-> 90,
     pattern |-> <<WB, AltSeq(<< <<"+", "8", "2">>, <<"0">> >>),
                   AltSeq(<< <<"1", "0">>, <<"1", "1">>, <<"1", "6">>, <<"1", "7">>, <<"1", "8">>, <<"1", "9">> >>),
                   Rep({"-"}, 0, 1), D(3, 4), Rep({"-"}, 0, 1), D(4, 4), WB>>],
    [pii_type |-> "korean_rrn", confidence |-> 98,
     pattern |-> <<WB, D(6, 6), One("-"), Rep({"1", "2", "3", "4"}, 1, 1), D(6, 6), WB>>],
    [pii_type |-> "ssn", confidence |-> 85,
     pattern |-> <<WB, D(3, 3), One("-"), D(2, 2), One("-"), D(4, 4), WB>>],
    [pii_type |-> "credit_card", confidence |-> 80,
     pattern |-> <<WB, D(4, 4), Rep({"-", " ", "\n", "\t"}, 0, 1), D(4, 4), Rep({"-", " ", "\n", "\t"}, 0, 1),
                   D(4, 4), Rep({"-", " ", "\n", "\t"}, 0, 1), D(4, 4), WB>>],
    [pii_type |-> "ip_address", confidence |-> 70,
     pattern |-> <<WB, D(1, 3), One("."), D(1, 3), One("."), D(1, 3), One("."), D(1, 3), WB>>],
    [pii_type |-> "passport", confidence |-> 75,
     pattern |-> <<WB, Rep(UpperSet, 1, 2), D(7, 9), WB>>],
    [pii_type |-> "bank_account", confidence |-> 60,
     pattern |-> <<WB, D(10, 16), WB>>]
>>

\* the default of the constructor parameter min_confidence, in hundredths
DEFAULT_MIN_CONFIDENCE == 70

\* _mask_email: the first and the last character of the local part are kept
\* when it has more than two characters
mask_email(email) ==
    LET at == IndexOf(email, "@")
        local == SubSeq(email, 1, at - 1)
        domain == DropFirst(email, at)
        masked_local == IF Len(local) <= 2 THEN Stars(Len(local))
                        ELSE <<local[1]>> \o Stars(Len(local) - 2) \o <<local[Len(local)]>>
    IN IF at = 0
       THEN <<"*", "*", "*", "M", "A", "S", "K", "E", "D", "_", "E", "M", "A", "I", "L", "*", "*", "*">>
       ELSE masked_local \o <<"@">> \o domain

\* _mask_phone
mask_phone(phone) ==
    LET digits == DigitsOf(phone)
    IN IF Len(digits) >= 8
       THEN TakeFirst(digits, 3) \o <<"-", "*", "*", "*", "*", "-">> \o TakeLast(digits, 4)
       ELSE <<"*", "*", "*", "M", "A", "S", "K", "E", "D", "_", "P", "H", "O", "N", "E", "*", "*", "*">>

\* _mask_korean_rrn
mask_korean_rrn(rrn) ==
    LET at == IndexOf(rrn, "-")
        front == SubSeq(rrn, 1, at - 1)
        back == DropFirst(rrn, at)
    IN IF at # 0
       THEN front \o <<"-", back[1]>> \o Stars(Len(back) - 1)
       ELSE <<"*", "*", "*", "M", "A", "S", "K", "E", "D", "_", "R", "R", "N", "*", "*", "*">>

\* _mask_ssn
mask_ssn(ssn) ==
    LET parts == SplitAll(ssn, "-")
    IN IF Len(parts) = 3
       THEN <<"*", "*", "*", "-", "*", "*", "-">> \o parts[3]
       ELSE <<"*", "*", "*", "M", "A", "S", "K", "E", "D", "_", "S", "S", "N", "*", "*", "*">>

\* _mask_credit_card
mask_credit_card(card) ==
    LET digits == DigitsOf(card)
    IN IF Len(digits) >= 12
       THEN <<"*", "*", "*", "*", "-", "*", "*", "*", "*", "-", "*", "*", "*", "*", "-">> \o TakeLast(digits, 4)
       ELSE <<"*", "*", "*", "M", "A", "S", "K", "E", "D", "_", "C", "A", "R", "D", "*", "*", "*">>

\* _mask_ip_address
mask_ip_address(ip) ==
    LET parts == SplitAll(ip, ".")
    IN IF Len(parts) = 4
       THEN parts[1] \o <<".">> \o parts[2] \o <<".", "*", ".", "*", "*", "*">>
       ELSE <<"*", "*", "*", "M", "A", "S", "K", "E", "D", "_", "I", "P", "*", "*", "*">>

\* _mask_passport
mask_passport(passport) ==
    IF Len(passport) >= 6
    THEN <<passport[1]>> \o Stars(Len(passport) - 4) \o TakeLast(passport, 3)
    ELSE <<"*", "*", "*", "M", "A", "S", "K", "E", "D", "_", "P", "A", "S", "S", "P", "O", "R", "T", "*", "*", "*">>

\* _mask_bank_account
mask_bank_account(account) ==
    IF Len(account) >= 8
    THEN TakeFirst(account, 3) \o Stars(Len(account) - 6) \o TakeLast(account, 3)
    ELSE <<"*", "*", "*", "M", "A", "S", "K", "E", "D", "_", "A", "C", "C", "O", "U", "N", "T", "*", "*", "*">>

\* _mask_generic
mask_generic(value) ==
    IF Len(value) <= 4 THEN Stars(Len(value))
    ELSE TakeFirst(value, 2) \o Stars(Len(value) - 4) \o TakeLast(value, 2)

\* _generate_mask
generate_mask(value, pii_type) ==
    CASE pii_type = "email" -> mask_email(value)
      [] pii_type = "phone" -> mask_phone(value)
      [] pii_type = "korean_rrn" -> mask_korean_rrn(value)
      [] pii_type = "ssn" -> mask_ssn(value)
      [] pii_type = "credit_card" -> mask_credit_card(value)
      [] pii_type = "ip_address" -> mask_ip_address(value)
      [] pii_type = "passport" -> mask_passport(value)
      [] pii_type = "bank_account" -> mask_bank_account(value)
      [] OTHER -> mask_generic(value)

RECURSIVE mask_matches(_, _, _, _, _)
\* a faulty variant of mask_matches: the matches are replaced from the
\* leftmost to the rightmost, each at the span finditer gave it (a slice
\* that runs past the end of the text stops there)
mask_matches_leftmost_first(matches, j, masked_text, detected_pii, config) ==
    IF j = 0 THEN [text |-> masked_text, detected |-> detected_pii]
    ELSE LET match == matches[Len(matches) - j + 1]
             n == Len(masked_text)
             start == IF match.start > n + 1 THEN n + 1 ELSE match.start
             stop == IF match.stop > n + 1 THEN n + 1 ELSE match.stop
             original_value == SubSeq(masked_text, start, stop - 1)
             masked_value == generate_mask(original_value, config.pii_type)
         IN mask_matches(matches, j - 1,
                SubSeq(masked_text, 1, start - 1) \o masked_value
                    \o SubSeq(masked_text, stop, n),
                Append(detected_pii, [pii_type |-> config.pii_type,
                                      original_value |-> original_value,
                                      masked_value |-> masked_value,
                                      confidence |-> config.confidence,
                                      position |-> match.start - 1]),
                config)

\* the loop of _mask_string over reversed(matches): the matches j, j - 1, ...,
\* 1 are recorded in detected_pii and replaced in masked_text
mask_matches(matches, j, masked_text, detected_pii, config) ==
    IF j = 0 THEN [text |-> masked_text, detected |-> detected_pii]
    ELSE LET match == matches[j]
             original_value == SubSeq(masked_text, match.start, match.stop - 1)
             masked_value == generate_mask(original_value, config.pii_type)
         IN mask_matches(matches, j - 1,
                SubSeq(masked_text, 1, match.start - 1) \o masked_value
                    \o SubSeq(masked_text, match.stop, Len(masked_text)),
                Append(detected_pii, [pii_type |-> config.pii_type,
                                      original_value |-> original_value,
                                      masked_value |-> masked_value,
                                      confidence |-> config.confidence,
                                      position |-> match.start - 1]),
                config)

RECURSIVE mask_patterns(_, _, _, _)
\* a faulty variant of mask_patterns: a pattern whose confidence equals
\* min_confidence is skipped too
mask_patterns_skipping_equal(k, masked_text, detected_pii, min_confidence) ==
    IF k > Len(PII_PATTERNS) THEN [text |-> masked_text, detected |-> detected_pii]
    ELSE LET config == PII_PATTERNS[k]
         IN IF config.confidence <= min_confidence
            THEN mask_patterns(k + 1, masked_text, detected_pii, min_confidence)
            ELSE LET matches == FindIter(config.pattern, masked_text, TRUE)
                     done == mask_matches(matches, Len(matches), masked_text, detected_pii, config)
                 IN mask_patterns(k + 1, done.text, done.detected, min_confidence)

\* the loop of _mask_string over the patterns k, k + 1, ...: a pattern whose
\* confidence is below min_confidence is skipped, every other one is matched
\* against the text as the patterns before it left it
mask_patterns(k, masked_text, detected_pii, min_confidence) ==
    IF k > Len(PII_PATTERNS) THEN [text |-> masked_text, detected |-> detected_pii]
    ELSE LET config == PII_PATTERNS[k]
         IN IF config.confidence < min_confidence
            THEN mask_patterns(k + 1, masked_text, detected_pii, min_confidence)
            ELSE LET matches == FindIter(config.pattern, masked_text, TRUE)
                     done == mask_matches(matches, Len(matches), masked_text, detected_pii, config)
                 IN mask_patterns(k + 1, done.text, done.detected, min_confidence)

\* _mask_string: the masked text and detected_pii with the findings appended
mask_string(text, detected_pii, min_confidence) ==
    IF text = <<>> THEN [text |-> text, detected |-> detected_pii]
    ELSE mask_patterns(1, text, detected_pii, min_confidence)

(***************************************************************************)
(* The values handed to the masker: a text, a dict (its keys in insertion  *)
(* order and the values under them), a list, a tuple, or a value of        *)
(* another type (an int, None).  Every value carries all fields.           *)
(***************************************************************************)
StrV(t) == [kind |-> "str", text |-> t, num |-> 0, keys |-> <<>>, items |-> <<>>]
IntV(n) == [kind |-> "int", text |-> <<>>, num |-> n, keys |-> <<>>, items |-> <<>>]
NoneV == [kind |-> "NoneType", text |-> <<>>, num |-> 0, keys |-> <<>>, items |-> <<>>]
DictV(ks, vs) == [kind |-> "dict", text |-> <<>>, num |-> 0, keys |-> ks, items |-> vs]
ListV(vs) == [kind |-> "list", text |-> <<>>, num |-> 0, keys |-> <<>>, items |-> vs]
TupleV(vs) == [kind |-> "tuple", text |-> <<>>, num |-> 0, keys |-> <<>>, items |-> vs]

RECURSIVE mask_recursive(_, _, _)
RECURSIVE mask_each(_, _, _, _)
\* a faulty variant of mask_recursive: a tuple comes back as a list
mask_recursive_tuples_as_lists(data, detected_pii, min_confidence) ==
    CASE data.kind = "str" ->
            LET r == mask_string(data.text, detected_pii, min_confidence)
            IN [data |-> StrV(r.text), detected |-> r.detected]
      [] data.kind = "dict" ->
            LET r == mask_each(data.items, 1, detected_pii, min_confidence)
            IN [data |-> DictV(data.keys, r.items), detected |-> r.detected]
      [] data.kind \in {"list", "tuple"} ->
            LET r == mask_each(data.items, 1, detected_pii, min_confidence)
            IN [data |-> ListV(r.items), detected |-> r.detected]
      [] OTHER -> [data |-> data, detected |-> detected_pii]

\* _mask_recursive: the masked value and detected_pii with the findings appended
mask_recursive(data, detected_pii, min_confidence) ==
    CASE data.kind = "str" ->
            LET r == mask_string(data.text, detected_pii, min_confidence)
            IN [data |-> StrV(r.text), detected |-> r.detected]
      [] data.kind = "dict" ->
            LET r == mask_each(data.items, 1, detected_pii, min_confidence)
            IN [data |-> DictV(data.keys, r.items), detected |-> r.detected]
      [] data.kind = "list" ->
            LET r == mask_each(data.items, 1, detected_pii, min_confidence)
            IN [data |-> ListV(r.items), detected |-> r.detected]
      [] data.kind = "tuple" ->
            LET r == mask_each(data.items, 1, detected_pii, min_confidence)
            IN [data |-> TupleV(r.items), detected |-> r.detected]
      [] OTHER -> [data |-> data, detected |-> detected_pii]

\* the comprehensions of _mask_recursive: the items i, i + 1, ... are masked
\* in their order
mask_each(items, i, detected_pii, min_confidence) ==
    IF i > Len(items) THEN [items |-> <<>>, detected |-> detected_pii]
    ELSE LET first == mask_recursive(items[i], detected_pii, min_confidence)
             rest == mask_each(items, i + 1, first.detected, min_confidence)
         IN [items |-> <<first.data>> \o rest.items, detected |-> rest.detected]

\* mask_data: the MaskingResult.  _log_masking_event writes a log line and
\* changes nothing
mask_data(data, min_confidence) ==
    LET r == mask_recursive(data, <<>>, min_confidence)
    IN [original_data |-> data,
        masked_data |-> r.data,
        detected_pii |-> r.detected,
        masking_applied |-> Len(r.detected) > 0]

\* MaskingResult.has_pii
has_pii(result) == Len(result.detected_pii) > 0

\* pattern.search(s) is not None
Found(pat, s, ic) == \E i \in 1..(Len(s) + 1) : MatchEnd(pat, 1, s, i, ic) # 0

\* detect_pii_types on a text: the types, in the order of the dict, whose
\* confidence reaches min_confidence and whose pattern is found in the text
detect_pii_types(text, min_confidence) ==
    LET hits == SelectSeq(PII_PATTERNS,
                    LAMBDA config : config.confidence >= min_confidence
                                    /\ Found(config.pattern, text, TRUE))
    IN [k \in 1..Len(hits) |-> hits[k].pii_type]

\* a faulty variant of is_sensitive_data: only a text is looked into
is_sensitive_data_texts_only(data, min_confidence) ==
    CASE data.kind = "str" -> Len(detect_pii_types(data.text, min_confidence)) > 0
      [] OTHER -> FALSE

\* is_sensitive_data
is_sensitive_data(data, min_confidence) ==
    CASE data.kind = "str" -> Len(detect_pii_types(data.text, min_confidence)) > 0
      [] data.kind \in {"dict", "list", "tuple"} -> has_pii(mask_data(data, min_confidence))
      [] OTHER -> FALSE

(***************************************************************************)
(* Inputs of the validator: the SQL texts an LLM may hand over, written as *)
(* up to MaxFrags pieces out of SqlFragments.                              *)
(***************************************************************************)
MaxFrags == 3

SqlFragments == {
    <<"S", "e", "l", "e", "c", "t", " ">>,
    <<"i", "d">>,
    <<"d", "r", "o", "p", " ">>,
    <<"C", "o", "m", "m", "e", "n", "t">>,
    <<" ", "L", "i", "m", "i", "t", " ", "5">>,
    <<"_", "l", "i", "m", "i", "t">>,
    <<" ", "F", "R", "O", "M", " ", "p", "g", "_", "t">>,
    <<";">>,
    <<" ">>,
    <<"-", "-">>,
    <<"/", "*", "*", "/">>,
    <<"/", "*", "\n", "*", "/">>,
    <<ZeroRun>>
}

SqlInputs == TextsOf(SqlFragments, MaxFrags)

validator_vars == <<sql, verdict, reverdict, vpc, sql_is_none, context, raised>>
pipeline_vars == <<has_cache, cache, question, ppc, analysis_type, cleared, llm_calls, llm_sql,
                   call_verdict, handed_sql, handed_code, cache_hit, gen_error, response>>
detector_vars == <<input_text, input_is_none, detected, sanitized, sanitize_raised, dpc>>
masker_vars == <<mask_input, masker_min_confidence, masking_result, pii_types, sensitive, mpc>>
construction_vars == <<uncompilable, masker, validator, init_raised, served>>
\* the state of the components a request passes through
component_vars == <<validator_vars, detector_vars, masker_vars>>
\* the state around the components: how they are built
shared_vars == <<frames>>
usecase_vars == <<query, last_call, request, upc, repository, uc_error, uc_response, uc_raised>>
service_vars == <<construction_vars, shared_vars, usecase_vars>>
vars == <<component_vars, pipeline_vars, service_vars>>

\* no classifier is being built
ConstructionOff ==
    /\ uncompilable = {}
    /\ masker = None
    /\ validator = None
    /\ init_raised = {}
    /\ served = None

\* the callers of the shared classifiers
Callers == {1, 2}

\* the frame of a caller that has made no call
IdleFrame ==
    [op |-> "none", arg |-> <<>>, stage |-> 0, done |-> FALSE, overlapped |-> FALSE,
     violations |-> <<>>, warnings |-> <<>>, threat_level |-> LOW,
     masked_text |-> <<>>, detected_pii |-> <<>>,
     verdict |-> None, masking |-> None, answer |-> None]

\* no call on a shared classifier
SharedOff == frames = [c \in Callers |-> IdleFrame]

\* no request handed to the use case
NoRequest == [question |-> <<>>, user_id |-> <<>>, connection_id |-> None]

\* no analysis query and no use case under observation
UseCaseOff ==
    /\ query = None
    /\ last_call = None
    /\ request = NoRequest
    /\ upc = "off"
    /\ repository = <<>>
    /\ uc_error = None
    /\ uc_response = None
    /\ uc_raised = None

ServiceOff == ConstructionOff /\ SharedOff /\ UseCaseOff

\* no masker call under observation
MaskerOff ==
    /\ mask_input = NoneV
    /\ masker_min_confidence = DEFAULT_MIN_CONFIDENCE
    /\ masking_result = None
    /\ pii_types = None
    /\ sensitive = None
    /\ mpc = "off"

\* no detector call under observation
DetectorOff ==
    /\ input_text = <<>>
    /\ input_is_none = FALSE
    /\ detected = None
    /\ sanitized = None
    /\ sanitize_raised = None
    /\ dpc = "off"

\* the pipeline at rest: nothing built, no request
PipelineOff ==
    /\ has_cache = FALSE
    /\ cache = <<>>
    /\ question = <<>>
    /\ ppc = "off"
    /\ analysis_type = "none"
    /\ cleared = FALSE
    /\ llm_calls = {}
    /\ llm_sql = None
    /\ call_verdict = None
    /\ handed_sql = None
    /\ handed_code = None
    /\ cache_hit = FALSE
    /\ gen_error = None
    /\ response = None

\* no validator call under observation
ValidatorOff ==
    /\ sql = <<>>
    /\ verdict = None
    /\ reverdict = None
    /\ vpc = "off"
    /\ sql_is_none = FALSE
    /\ context = None
    /\ raised = None

InitValidator ==
    /\ sql \in SqlInputs
    /\ verdict = None
    /\ reverdict = None
    /\ vpc = "input"
    /\ sql_is_none = FALSE
    /\ context = None
    /\ raised = None
    /\ DetectorOff
    /\ PipelineOff
    /\ MaskerOff
    /\ ServiceOff

\* a caller hands sql and context to validate_sql and receives the verdict,
\* or the exception
ValidateSql ==
    /\ vpc = "input"
    /\ \E call \in {call_validate_sql(sql_is_none, sql, context)} :
          /\ verdict' = call.result
          /\ raised' = call.raised
          /\ vpc' = IF call.raised = None THEN "validated" ELSE "raised"
    /\ UNCHANGED <<sql, reverdict, sql_is_none, context, detector_vars, masker_vars, pipeline_vars, service_vars>>

\* the sanitized SQL of a safe verdict is handed to validate_sql again
RevalidateSanitized ==
    /\ vpc = "validated"
    /\ TheVal(verdict).sanitized_sql # None
    /\ \E call \in {call_validate_sql(FALSE, TheVal(TheVal(verdict).sanitized_sql), context)} :
          /\ reverdict' = call.result
          /\ raised' = call.raised
          /\ vpc' = IF call.raised = None THEN "revalidated" ELSE "raised"
    /\ UNCHANGED <<sql, verdict, sql_is_none, context, detector_vars, masker_vars, pipeline_vars, service_vars>>

NextValidator == ValidateSql \/ RevalidateSanitized

SpecValidator == InitValidator /\ [][NextValidator]_vars

(***************************************************************************)
(* The calls of validate_sql as its signature admits them: sql a text, the *)
(* empty text or None, with or without a context map.                      *)
(***************************************************************************)
MaxCallFrags == 2

CallFragments == {
    <<"S", "e", "l", "e", "c", "t", " ">>,
    <<"i", "d">>,
    <<"d", "r", "o", "p", " ">>,
    <<" ">>,
    <<"\n">>,
    <<Surrogate>>
}

CallInputs == TextsOf(CallFragments, MaxCallFrags)

\* no context, an empty map, the map _execute_database_analysis passes
ContextMaps == {None, Some({}), Some({<<"user_id", "u1">>, <<"connection_id", "c1">>})}

InitValidatorCall ==
    /\ \/ sql_is_none = TRUE /\ sql = <<>>
       \/ sql_is_none = FALSE /\ sql \in CallInputs
    /\ context \in ContextMaps
    /\ verdict = None
    /\ reverdict = None
    /\ vpc = "input"
    /\ raised = None
    /\ DetectorOff
    /\ PipelineOff
    /\ MaskerOff
    /\ ServiceOff

SpecValidatorCall == InitValidatorCall /\ [][NextValidator]_vars

InitDetector ==
    /\ \/ input_is_none = TRUE /\ input_text = <<>>
       \/ input_is_none = FALSE /\ input_text \in PromptInputs
    /\ detected = None
    /\ sanitized = None
    /\ sanitize_raised = None
    /\ dpc = "input"
    /\ ValidatorOff
    /\ PipelineOff
    /\ MaskerOff
    /\ ServiceOff

\* a caller asks detect_injection about the text
DetectInjection ==
    /\ dpc = "input"
    /\ detected' = Some(call_detect_injection(input_is_none, input_text))
    /\ dpc' = "detected"
    /\ UNCHANGED <<input_text, input_is_none, sanitized, sanitize_raised, validator_vars, masker_vars, pipeline_vars, service_vars>>

\* a caller hands the text to sanitize_input
SanitizeInput ==
    /\ dpc = "detected"
    /\ \E call \in {call_sanitize_input(input_is_none, input_text)} :
          /\ sanitized' = call.result
          /\ sanitize_raised' = call.raised
    /\ dpc' = "sanitized"
    /\ UNCHANGED <<input_text, input_is_none, detected, validator_vars, masker_vars, pipeline_vars, service_vars>>

NextDetector == DetectInjection \/ SanitizeInput

SpecDetector == InitDetector /\ [][NextDetector]_vars

(***************************************************************************)
(* The calls of the masker: a PIIMasker is built with a min_confidence,    *)
(* and one value is handed to mask_data, to detect_pii_types and to        *)
(* is_sensitive_data.  The value is a text of up to MaxPiiFrags pieces, a  *)
(* value of another type, or a nesting of dicts, lists and tuples with at  *)
(* most MaxItems entries each.                                             *)
(***************************************************************************)
MaxPiiFrags == 2
MaxItems == 2

PiiFragments == {
    <<"j", "o", "h", "n", "@", "x", ".", "c", "o", "m">>,
    <<"a", "@">>,
    <<".", "c", "o", "m">>,
    <<" ">>,
    <<"1", ".", "2", ".", "3", ".", "4">>,
    <<"1", "2", "3", "4", "5", "6", "7", "8", "9", "0">>,
    <<"0", "1", "0", "1", "2", "3", "4", "5", "6", "7", "8">>,
    <<"1", "2", "3", "4", "5", "6", "-", "1", "2", "3", "4", "5", "6", "7">>,
    <<"M", "1", "2", "3", "4", "5", "6", "7", "8">>
}

PiiTexts == TextsOf(PiiFragments, MaxPiiFrags)

\* the leaves of the nested values
LeafValues == {
    StrV(<<"j", "o", "h", "n", "@", "x", ".", "c", "o", "m">>),
    StrV(<<"1", ".", "2", ".", "3", ".", "4">>),
    StrV(<<"1", "2", "3", "4", "5", "6", "7", "8", "9", "0">>),
    IntV(7),
    NoneV
}

DictKeys == <<"email", "note", "ip", "account">>

\* the sequences of at most n values out of vs
SeqsUpTo(vs, n) == UNION {[1..m -> vs] : m \in 0..n}

\* the dicts, lists and tuples of at most n entries out of vs
ContainersOf(vs, n) ==
    LET seqs == SeqsUpTo(vs, n)
    IN {ListV(q) : q \in seqs} \cup {TupleV(q) : q \in seqs}
       \cup {DictV(SubSeq(DictKeys, 1, Len(q)), q) : q \in seqs}

\* containers inside containers: an entry is a leaf or one of three
\* containers of one leaf
InnerValues ==
    LeafValues \cup {
        ListV(<<StrV(<<"j", "o", "h", "n", "@", "x", ".", "c", "o", "m">>)>>),
        TupleV(<<IntV(7)>>),
        DictV(<<"email">>, <<StrV(<<"j", "o", "h", "n", "@", "x", ".", "c", "o", "m">>)>>)
    }

MaskerInputs ==
    {StrV(t) : t \in PiiTexts} \cup LeafValues \cup ContainersOf(InnerValues, MaxItems)

\* the thresholds a masker is built with, in hundredths
MinConfidences == {60, DEFAULT_MIN_CONFIDENCE, 75}

\* a call detect_pii_types(data): pattern.search raises TypeError for a
\* value that is no text, at the first pattern whose confidence reaches
\* min_confidence
call_detect_pii_types(data, min_confidence) ==
    IF data.kind = "str"
    THEN [raised |-> None, result |-> Some(detect_pii_types(data.text, min_confidence))]
    ELSE IF \E k \in 1..Len(PII_PATTERNS) : PII_PATTERNS[k].confidence >= min_confidence
    THEN [raised |-> Some("TypeError"), result |-> None]
    ELSE [raised |-> None, result |-> Some(<<>>)]

InitMasker ==
    /\ mask_input \in MaskerInputs
    /\ masker_min_confidence \in MinConfidences
    /\ masking_result = None
    /\ pii_types = None
    /\ sensitive = None
    /\ mpc = "input"
    /\ ValidatorOff
    /\ DetectorOff
    /\ PipelineOff
    /\ ServiceOff

\* a caller hands the value to mask_data and receives the MaskingResult; the
\* value itself is not written to
MaskData ==
    /\ mpc = "input"
    /\ masking_result' = Some(mask_data(mask_input, masker_min_confidence))
    /\ mpc' = "masked"
    /\ UNCHANGED <<mask_input, masker_min_confidence, pii_types, sensitive,
                   validator_vars, detector_vars, pipeline_vars, service_vars>>

\* a caller hands the value to detect_pii_types
DetectPiiTypes ==
    /\ mpc = "masked"
    /\ pii_types' = Some(call_detect_pii_types(mask_input, masker_min_confidence))
    /\ mpc' = "typed"
    /\ UNCHANGED <<mask_input, masker_min_confidence, masking_result, sensitive,
                   validator_vars, detector_vars, pipeline_vars, service_vars>>

\* a caller hands the value to is_sensitive_data
IsSensitiveData ==
    /\ mpc = "typed"
    /\ sensitive' = Some(is_sensitive_data(mask_input, masker_min_confidence))
    /\ mpc' = "answered"
    /\ UNCHANGED <<mask_input, masker_min_confidence, masking_result, pii_types,
                   validator_vars, detector_vars, pipeline_vars, service_vars>>

NextMasker == MaskData \/ DetectPiiTypes \/ IsSensitiveData

SpecMasker == InitMasker /\ [][NextMasker]_vars

\* the calls of the masker on texts in which a category matches more than
\* once and the masks of the categories differ in length from what they hide
MaxSpanFrags == 3

SpanFragments == {
    <<"1", ".", "2", ".", "3", ".", "4">>,
    <<"1", ".", "2", ".", "3", "0", ".", "4", "0", "0">>,
    <<"0", "1", "0", "1", "2", "3", "4", "5", "6", "7", "8">>,
    <<"a", "@", "x", ".", "c", "o", "m">>,
    <<" ">>
}

SpanTexts == TextsOf(SpanFragments, MaxSpanFrags)

InitMaskerTexts ==
    /\ mask_input \in {StrV(t) : t \in SpanTexts}
    /\ masker_min_confidence \in MinConfidences
    /\ masking_result = None
    /\ pii_types = None
    /\ sensitive = None
    /\ mpc = "input"
    /\ ValidatorOff
    /\ DetectorOff
    /\ PipelineOff
    /\ ServiceOff

SpecMaskerTexts == InitMaskerTexts /\ [][NextMasker]_vars

(***************************************************************************)
(* The construction of the classifiers.  The pattern tables are class      *)
(* attributes; a table may hold a pattern re.compile rejects, and          *)
(* uncompilable names those patterns.  get_pii_masker and                  *)
(* get_sql_validator build the shared instances with the default           *)
(* arguments; the built masker then serves detect_pii_types.               *)
(***************************************************************************)
PiiPatternIds == {<<"PII_PATTERNS", k>> : k \in 1..Len(PII_PATTERNS)}

ValidatorPatternIds ==
    {<<"DANGEROUS_SQL_PATTERNS", k>> : k \in 1..Len(DANGEROUS_SQL_PATTERNS)}
        \cup {<<"SUSPICIOUS_PATTERNS", k>> : k \in 1..Len(SUSPICIOUS_PATTERNS)}

\* the tables the classes may be configured with: at most one of the
\* masker's patterns and at most one of the validator's is rejected by
\* re.compile
Configurations ==
    {B \cup V : B \in {{}} \cup {{id} : id \in PiiPatternIds},
                V \in {{}} \cup {{id} : id \in ValidatorPatternIds}}

\* PIIMasker._compile_patterns: the patterns kept, by their place in
\* PII_PATTERNS and in its order; re.error is caught and logged
compile_patterns(broken) ==
    SelectSeq([k \in 1..Len(PII_PATTERNS) |-> k], LAMBDA k : <<"PII_PATTERNS", k>> \notin broken)

\* PIIMasker.__init__
PIIMasker_init(min_confidence, broken) ==
    [raised |-> None,
     instance |-> Some([min_confidence |-> min_confidence,
                        compiled_patterns |-> compile_patterns(broken)])]

\* SQLSecurityValidator.__init__: the two comprehensions let re.error escape
SQLSecurityValidator_init(broken) ==
    IF broken \cap ValidatorPatternIds # {}
    THEN [raised |-> Some("re.error"), instance |-> None]
    ELSE [raised |-> None,
          instance |-> Some([compiled_dangerous_patterns |-> [k \in 1..Len(DANGEROUS_SQL_PATTERNS) |-> k],
                             compiled_suspicious_patterns |-> [k \in 1..Len(SUSPICIOUS_PATTERNS) |-> k]])]

\* detect_pii_types of a built masker on a text: the loop runs over
\* self._compiled_patterns
compiled_detect_pii_types(self, text) ==
    LET hits == SelectSeq(self.compiled_patterns,
                    LAMBDA k : PII_PATTERNS[k].confidence >= self.min_confidence
                               /\ Found(PII_PATTERNS[k].pattern, text, TRUE))
    IN [i \in 1..Len(hits) |-> PII_PATTERNS[hits[i]].pii_type]

InitConstruction ==
    /\ uncompilable \in Configurations
    /\ masker = None
    /\ validator = None
    /\ init_raised = {}
    /\ served = None
    /\ ValidatorOff
    /\ DetectorOff
    /\ MaskerOff
    /\ PipelineOff
    /\ SharedOff
    /\ UseCaseOff

\* get_pii_masker: PIIMasker() is built once
ConstructMasker ==
    /\ masker = None
    /\ "PIIMasker" \notin init_raised
    /\ \E built \in {PIIMasker_init(DEFAULT_MIN_CONFIDENCE, uncompilable)} :
          /\ masker' = built.instance
          /\ init_raised' = IF built.raised # None THEN init_raised \cup {"PIIMasker"}
                            ELSE init_raised
    /\ UNCHANGED <<uncompilable, validator, served, component_vars, pipeline_vars, shared_vars, usecase_vars>>

\* get_sql_validator: SQLSecurityValidator() is built once
ConstructValidator ==
    /\ validator = None
    /\ "SQLSecurityValidator" \notin init_raised
    /\ \E built \in {SQLSecurityValidator_init(uncompilable)} :
          /\ validator' = built.instance
          /\ init_raised' = IF built.raised # None
                            THEN init_raised \cup {"SQLSecurityValidator"}
                            ELSE init_raised
    /\ UNCHANGED <<uncompilable, masker, served, component_vars, pipeline_vars, shared_vars, usecase_vars>>

\* the built masker serves detect_pii_types on a text
ServeDetectPiiTypes ==
    /\ masker # None
    /\ served = None
    /\ \E text \in PiiFragments :
          served' = Some([text |-> text,
                          pii_types |-> compiled_detect_pii_types(TheVal(masker), text)])
    /\ UNCHANGED <<uncompilable, masker, validator, init_raised, component_vars, pipeline_vars, shared_vars, usecase_vars>>

NextConstruction == ConstructMasker \/ ConstructValidator \/ ServeDetectPiiTypes

SpecConstruction == InitConstruction /\ [][NextConstruction]_vars

(***************************************************************************)
(* Calls in flight on the shared classifiers.  get_sql_validator and       *)
(* get_pii_masker hand every request the same instance, so the calls of    *)
(* two callers interleave: a call of validate_sql advances by one stage, a *)
(* call of mask_data on a text by one pattern of the loop of _mask_string. *)
(* What a call gathers is held in its frame.                               *)
(***************************************************************************)
SharedSqlTexts ==
    {a \o b : a \in {<<"S", "e", "l", "e", "c", "t", " ">>, <<"d", "r", "o", "p", " ">>},
              b \in {<<"i", "d">>, <<"i", "d", "-", "-">>}}

SharedPiiTexts ==
    {<<"j", "o", "h", "n", "@", "x", ".", "c", "o", "m">>,
     <<"1", ".", "2", ".", "3", ".", "4">>,
     <<"a", "@", "1", ".", "2", ".", "3", ".", "4", ".", "c", "o", "m">>,
     <<" ">>}

SharedPrompts == {<<"S", "y", "s", "t", "e", "m", ":">>, <<"s", "h", "o", "w">>}

\* a faulty variant of mask_data_frame: the list of findings is the one the
\* calls in flight write to
mask_data_frame_joining_list(self, text) ==
    [IdleFrame EXCEPT !.op = "mask_data", !.arg = text,
                      !.stage = IF text = <<>> THEN Len(self.compiled_patterns) + 1 ELSE 1,
                      !.masked_text = text,
                      !.detected_pii = frames[1].detected_pii \o frames[2].detected_pii]

\* mask_data on a text, lines 131-132 and 159-163: detected_pii is a new
\* list of the call, the text is the one to mask; an empty text is returned
\* by _mask_string before the loop
mask_data_frame(self, text) ==
    [IdleFrame EXCEPT !.op = "mask_data", !.arg = text,
                      !.stage = IF text = <<>> THEN Len(self.compiled_patterns) + 1 ELSE 1,
                      !.masked_text = text]

\* one pass of the loop of _mask_string, lines 165-192, for the pattern the
\* frame has come to
mask_data_pattern(self, f) ==
    LET config == PII_PATTERNS[self.compiled_patterns[f.stage]]
    IN IF config.confidence < self.min_confidence
       THEN [f EXCEPT !.stage = @ + 1]
       ELSE LET matches == FindIter(config.pattern, f.masked_text, TRUE)
                done == mask_matches(matches, Len(matches), f.masked_text, f.detected_pii, config)
            IN [f EXCEPT !.stage = @ + 1, !.masked_text = done.text, !.detected_pii = done.detected]

\* mask_data, lines 137-142: the MaskingResult is built from the locals
mask_data_return(f) ==
    [f EXCEPT !.done = TRUE,
              !.masking = Some([original_data |-> StrV(f.arg),
                                masked_data |-> StrV(f.masked_text),
                                detected_pii |-> f.detected_pii,
                                masking_applied |-> Len(f.detected_pii) > 0])]

\* validate_sql, lines 111-120: a blank text is answered at once, any other
\* text starts the stages with empty lists and the level LOW
validate_sql_frame(s) ==
    IF s = <<>> \/ Strip(s) = <<>>
    THEN [IdleFrame EXCEPT !.op = "validate_sql", !.arg = s, !.done = TRUE,
                           !.verdict = Some(SQLValidationResult(FALSE, HIGH, <<MsgEmptySql>>, None, <<>>))]
    ELSE [IdleFrame EXCEPT !.op = "validate_sql", !.arg = s, !.stage = 1]

\* validate_sql, lines 122-150: the stage the frame has come to
validate_sql_stage(f) ==
    CASE f.stage = 1 ->
            LET keyword_violations == check_forbidden_keywords(f.arg)
            IN [f EXCEPT !.stage = 2, !.violations = @ \o keyword_violations,
                         !.threat_level = raise_for_keywords(@, keyword_violations)]
      [] f.stage = 2 ->
            LET pattern_violations == check_dangerous_patterns(f.arg)
            IN [f EXCEPT !.stage = 3, !.violations = @ \o pattern_violations,
                         !.threat_level = raise_for_patterns(@, pattern_violations)]
      [] f.stage = 3 ->
            LET suspicious_warnings == check_suspicious_patterns(f.arg)
            IN [f EXCEPT !.stage = 4, !.warnings = @ \o suspicious_warnings,
                         !.threat_level = raise_for_suspicious(@, suspicious_warnings)]
      [] f.stage = 4 ->
            LET not_select == ~is_select_query(f.arg)
            IN [f EXCEPT !.stage = 5,
                         !.violations = @ \o (IF not_select THEN <<MsgSelectOnly>> ELSE <<>>),
                         !.threat_level = raise_for_non_select(@, not_select)]
      [] f.stage = 5 ->
            LET too_long == StrLen(f.arg) > MAX_SQL_LENGTH
            IN [f EXCEPT !.stage = 6,
                         !.violations = @ \o (IF too_long THEN <<MsgTooLong>> ELSE <<>>),
                         !.threat_level = raise_for_length(@, too_long)]

\* validate_sql, lines 152-164: the verdict is built from the locals
validate_sql_return(f) ==
    [f EXCEPT !.done = TRUE,
              !.verdict = Some(assemble_verdict(f.arg,
                                   [violations |-> f.violations, warnings |-> f.warnings,
                                    threat_level |-> f.threat_level]))]

\* detect_injection keeps nothing but the place in its loop: the call is one
\* step
detect_injection_frame(text) ==
    [IdleFrame EXCEPT !.op = "detect_injection", !.arg = text, !.done = TRUE,
                      !.answer = Some(detect_injection(text))]

\* another caller is inside a call
OthersInFlight(c) == \E d \in Callers \ {c} : frames[d].op # "none" /\ ~frames[d].done

\* the frame of caller c becomes f
Advance(c, f) ==
    frames' = [frames EXCEPT ![c] = [f EXCEPT !.overlapped = @ \/ OthersInFlight(c)]]

InitShared ==
    /\ uncompilable = {}
    /\ masker = PIIMasker_init(DEFAULT_MIN_CONFIDENCE, uncompilable).instance
    /\ validator = SQLSecurityValidator_init(uncompilable).instance
    /\ init_raised = {}
    /\ served = None
    /\ frames = [c \in Callers |-> IdleFrame]
    /\ ValidatorOff
    /\ DetectorOff
    /\ MaskerOff
    /\ PipelineOff
    /\ UseCaseOff

EnterMaskData(c) ==
    /\ frames[c].op = "none"
    /\ \E text \in SharedPiiTexts : Advance(c, mask_data_frame(TheVal(masker), text))
    /\ UNCHANGED <<construction_vars, component_vars, pipeline_vars, usecase_vars>>

MaskDataPattern(c) ==
    /\ frames[c].op = "mask_data"
    /\ ~frames[c].done
    /\ frames[c].stage <= Len(TheVal(masker).compiled_patterns)
    /\ Advance(c, mask_data_pattern(TheVal(masker), frames[c]))
    /\ UNCHANGED <<construction_vars, component_vars, pipeline_vars, usecase_vars>>

ReturnMaskData(c) ==
    /\ frames[c].op = "mask_data"
    /\ ~frames[c].done
    /\ frames[c].stage > Len(TheVal(masker).compiled_patterns)
    /\ Advance(c, mask_data_return(frames[c]))
    /\ UNCHANGED <<construction_vars, component_vars, pipeline_vars, usecase_vars>>

EnterValidateSql(c) ==
    /\ frames[c].op = "none"
    /\ \E s \in SharedSqlTexts : Advance(c, validate_sql_frame(s))
    /\ UNCHANGED <<construction_vars, component_vars, pipeline_vars, usecase_vars>>

ValidateSqlStage(c) ==
    /\ frames[c].op = "validate_sql"
    /\ ~frames[c].done
    /\ frames[c].stage \in 1..5
    /\ Advance(c, validate_sql_stage(frames[c]))
    /\ UNCHANGED <<construction_vars, component_vars, pipeline_vars, usecase_vars>>

ReturnValidateSql(c) ==
    /\ frames[c].op = "validate_sql"
    /\ ~frames[c].done
    /\ frames[c].stage = 6
    /\ Advance(c, validate_sql_return(frames[c]))
    /\ UNCHANGED <<construction_vars, component_vars, pipeline_vars, usecase_vars>>

CallDetectInjection(c) ==
    /\ frames[c].op = "none"
    /\ \E text \in SharedPrompts : Advance(c, detect_injection_frame(text))
    /\ UNCHANGED <<construction_vars, component_vars, pipeline_vars, usecase_vars>>

NextShared ==
    \E c \in Callers :
        \/ EnterMaskData(c)
        \/ MaskDataPattern(c)
        \/ ReturnMaskData(c)
        \/ EnterValidateSql(c)
        \/ ValidateSqlStage(c)
        \/ ReturnValidateSql(c)
        \/ CallDetectInjection(c)

SpecShared == InitShared /\ [][NextShared]_vars

(***************************************************************************)
(* The analysis query (app/domain/entities/analysis_query.py), a frozen    *)
(* dataclass, and the use case that executes it                            *)
(* (app/use_cases/analysis/execute_analysis_use_case.py).  A message of    *)
(* the source is a text of one piece, named in brackets.                   *)
(***************************************************************************)
PENDING == "pending"
PROCESSING == "processing"
COMPLETED == "completed"
FAILED == "failed"
QueryStatus == {PENDING, PROCESSING, COMPLETED, FAILED}

MAX_QUESTION_CHARS == 1000

\* str.lower()
Lower(s) == [i \in 1..Len(s) |-> LowerCh(s[i])]

db_keywords == <<
    <<"U+B9E4", "U+CD9C">>,
    <<"U+ACE0", "U+AC1D">>,
    <<"U+C8FC", "U+BB38">>,
    <<"U+C0C1", "U+D488">>,
    <<"U+B370", "U+C774", "U+D130", "U+BCA0", "U+C774", "U+C2A4">>,
    <<"U+D14C", "U+C774", "U+BE14">>,
    <<"U+C870", "U+D68C">>,
    <<"s", "a", "l", "e", "s">>,
    <<"c", "u", "s", "t", "o", "m", "e", "r">>,
    <<"o", "r", "d", "e", "r">>,
    <<"p", "r", "o", "d", "u", "c", "t">>,
    <<"d", "a", "t", "a", "b", "a", "s", "e">>,
    <<"t", "a", "b", "l", "e">>,
    <<"s", "e", "l", "e", "c", "t">>
>>

excel_keywords == <<
    <<"U+D30C", "U+C77C">>,
    <<"U+C5D1", "U+C140">>,
    <<"U+C5C5", "U+B85C", "U+B4DC">>,
    <<"U+BD84", "U+C11D">>,
    <<"U+CC28", "U+D2B8">>,
    <<"U+ADF8", "U+B798", "U+D504">>,
    <<"f", "i", "l", "e">>,
    <<"e", "x", "c", "e", "l">>,
    <<"u", "p", "l", "o", "a", "d">>,
    <<"a", "n", "a", "l", "y", "z", "e">>,
    <<"c", "h", "a", "r", "t">>,
    <<"g", "r", "a", "p", "h">>
>>

\* _determine_query_type: a connection id decides for the database, then the
\* keywords found in the lowered question
determine_query_type(q, connection_id) ==
    LET question_lower == Strip(Lower(q))
    IN IF connection_id # None /\ TheVal(connection_id) # <<>> THEN "database"
       ELSE IF \E i \in 1..Len(db_keywords) : Contains(question_lower, db_keywords[i])
       THEN "database"
       ELSE IF \E i \in 1..Len(excel_keywords) : Contains(question_lower, excel_keywords[i])
       THEN "excel"
       ELSE "general"

\* AnalysisQuery.create_new: a query in the status PENDING
create_new(id, q, user_id, created_at, connection_id) ==
    [id |-> id, question |-> q, user_id |-> user_id,
     query_type |-> determine_query_type(q, connection_id),
     status |-> PENDING, created_at |-> created_at, connection_id |-> connection_id,
     execution_time_ms |-> None, error_message |-> None]

\* AnalysisQuery.is_valid
is_valid(self) ==
    /\ self.question # <<>> /\ Strip(self.question) # <<>>
    /\ StrLen(Strip(self.question)) <= MAX_QUESTION_CHARS
    /\ self.user_id # <<>> /\ Strip(self.user_id) # <<>>
    /\ ~(self.query_type = "database"
         /\ (self.connection_id = None \/ TheVal(self.connection_id) = <<>>))

\* what a mark_* call does: it raises, or it returns a new instance
Raises(name) == [raised |-> Some(name), returned |-> None]
Returns(instance) == [raised |-> None, returned |-> Some(instance)]

\* AnalysisQuery.mark_processing
mark_processing(self) ==
    IF self.status # PENDING THEN Raises("InvalidStateTransitionError")
    ELSE Returns([self EXCEPT !.status = PROCESSING])

\* AnalysisQuery.mark_completed
mark_completed(self, execution_time_ms) ==
    IF self.status \notin {PENDING, PROCESSING} THEN Raises("InvalidStateTransitionError")
    ELSE IF execution_time_ms < 0 THEN Raises("ValueError")
    ELSE Returns([self EXCEPT !.status = COMPLETED,
                              !.execution_time_ms = Some(execution_time_ms)])

\* AnalysisQuery.mark_failed: the status of the receiver is not looked at
mark_failed(self, error_message, execution_time_ms) ==
    IF error_message = <<>> \/ Strip(error_message) = <<>> THEN Raises("ValueError")
    ELSE IF execution_time_ms < 0 THEN Raises("ValueError")
    ELSE Returns([self EXCEPT !.status = FAILED,
                              !.error_message = Some(Strip(error_message)),
                              !.execution_time_ms = Some(execution_time_ms)])

\* the requests handed to the use case, and the arguments of create_new
RequestQuestions ==
    {<<>>, <<" ">>, <<"S", "a", "l", "e", "s">>, <<"c", "h", "a", "r", "t", " ">>,
     <<"h", "i">>, <<ZeroRun>>}

Requests ==
    [question : RequestQuestions, user_id : {<<>>, <<" ">>, <<"u">>},
     connection_id : {None, Some(<<"c">>)}]

\* the measured times, in milliseconds, and the times a caller may hand to
\* mark_completed and mark_failed
ElapsedTimes == {0, 5}
ExecutionTimes == {-1} \cup ElapsedTimes

ErrorMessages == {<<>>, <<" ">>, <<" ", "b", "o", "o", "m">>}

\* a caller holds a new query and calls mark_processing, mark_completed and
\* mark_failed on what it holds; it goes on with the instance returned
InitQuery ==
    /\ \E r \in Requests :
          query = Some(create_new("id", r.question, r.user_id, 0, r.connection_id))
    /\ last_call = None
    /\ request = NoRequest
    /\ upc = "off"
    /\ repository = <<>>
    /\ uc_error = None
    /\ uc_response = None
    /\ uc_raised = None
    /\ ValidatorOff
    /\ DetectorOff
    /\ MaskerOff
    /\ PipelineOff
    /\ ConstructionOff
    /\ SharedOff

\* the caller has called op on the query it holds, with the outcome call
Called(op, call) ==
    /\ last_call' = Some([op |-> op, receiver |-> TheVal(query), receiver_after |-> TheVal(query),
                          raised |-> call.raised, returned |-> call.returned])
    /\ query' = IF call.returned # None THEN call.returned ELSE query
    /\ UNCHANGED <<request, upc, repository, uc_error, uc_response, uc_raised,
                   component_vars, pipeline_vars, construction_vars, shared_vars>>

MarkProcessing ==
    \E call \in {mark_processing(TheVal(query))} : Called("mark_processing", call)

MarkCompleted ==
    \E t \in ExecutionTimes :
        \E call \in {mark_completed(TheVal(query), t)} : Called("mark_completed", call)

MarkFailed ==
    \E t \in ExecutionTimes, m \in ErrorMessages :
        \E call \in {mark_failed(TheVal(query), m, t)} : Called("mark_failed", call)

NextQuery == MarkProcessing \/ MarkCompleted \/ MarkFailed

SpecQuery == InitQuery /\ [][NextQuery]_vars

\* ExecuteAnalysisUseCase.execute.  The permission service and the analysis
\* engine are the environment: they answer or raise.
MsgNoPermission == <<"[no permission to execute an analysis]">>
MsgInvalidQuery == <<"[the query does not satisfy the business rules]">>
MsgSystemError(e) == <<"[system error: ]">> \o e
MsgEngineDown == <<"[engine down]">>

AnalysisResponse(query_id, q, query_type, status, result, error_message, execution_time_ms) ==
    [query_id |-> query_id, question |-> q, query_type |-> query_type, status |-> status,
     result |-> result, error_message |-> error_message,
     execution_time_ms |-> execution_time_ms]

InitUseCase ==
    /\ query = None
    /\ last_call = None
    /\ request = NoRequest
    /\ upc = "idle"
    /\ repository = <<>>
    /\ uc_error = None
    /\ uc_response = None
    /\ uc_raised = None
    /\ ValidatorOff
    /\ DetectorOff
    /\ MaskerOff
    /\ PipelineOff
    /\ ConstructionOff
    /\ SharedOff

\* execute is entered with a request
Submit ==
    /\ upc = "idle"
    /\ request' \in Requests
    /\ upc' = "started"
    /\ UNCHANGED <<query, last_call, repository, uc_error, uc_response, uc_raised,
                   component_vars, pipeline_vars, construction_vars, shared_vars>>

\* steps 1 to 3: the permission is asked for, the query is created and
\* checked against the business rules
Prepare ==
    /\ upc = "started"
    /\ \E permission \in {"granted", "denied", "raises"} :
          IF permission = "raises"
          THEN /\ uc_error' = Some([type |-> "Exception", message |-> MsgEngineDown])
               /\ upc' = "system_error"
               /\ UNCHANGED query
          ELSE IF permission = "denied"
          THEN /\ uc_error' = Some([type |-> "PermissionDeniedError", message |-> MsgNoPermission])
               /\ upc' = "business_error"
               /\ UNCHANGED query
          ELSE \E created \in {create_new("id", request.question, request.user_id, 0,
                                          request.connection_id)} :
                  /\ query' = Some(created)
                  /\ IF is_valid(created)
                     THEN /\ upc' = "engine"
                          /\ UNCHANGED uc_error
                     ELSE /\ uc_error' = Some([type |-> "InvalidQueryError",
                                               message |-> MsgInvalidQuery])
                          /\ upc' = "business_error"
    /\ UNCHANGED <<last_call, request, repository, uc_response, uc_raised,
                   component_vars, pipeline_vars, construction_vars, shared_vars>>

\* step 4: the analysis engine returns a result or raises
Analyse ==
    /\ upc = "engine"
    /\ \/ /\ upc' = "completing"
          /\ UNCHANGED uc_error
       \/ /\ uc_error' = Some([type |-> "Exception", message |-> MsgEngineDown])
          /\ upc' = "system_error"
    /\ UNCHANGED <<query, last_call, request, repository, uc_response, uc_raised,
                   component_vars, pipeline_vars, construction_vars, shared_vars>>

\* steps 5 and 6: query.mark_completed(execution_time) is called and what it
\* returns is dropped; the local query is saved and reported
Complete ==
    /\ upc = "completing"
    /\ \E execution_time \in ElapsedTimes :
          \E call \in {mark_completed(TheVal(query), execution_time)} :
             /\ last_call' = Some([op |-> "mark_completed", receiver |-> TheVal(query),
                                   receiver_after |-> TheVal(query),
                                   raised |-> call.raised, returned |-> call.returned])
             /\ IF call.raised # None
                THEN /\ uc_error' = Some([type |-> TheVal(call.raised), message |-> MsgEngineDown])
                     /\ upc' = "system_error"
                     /\ UNCHANGED <<repository, uc_response>>
                ELSE /\ repository' = Append(repository, TheVal(query))
                     /\ uc_response' = Some(AnalysisResponse("id", TheVal(query).question,
                                                TheVal(query).query_type, TheVal(query).status,
                                                Some("analysis_result"), None,
                                                Some(execution_time)))
                     /\ upc' = "returned"
                     /\ UNCHANGED uc_error
    /\ UNCHANGED <<query, request, uc_raised,
                   component_vars, pipeline_vars, construction_vars, shared_vars>>

\* except (PermissionDeniedError, InvalidQueryError): a query that exists is
\* handed mark_failed, whose result is dropped, and saved; a failure
\* response is returned
HandleBusinessError ==
    /\ upc = "business_error"
    /\ \E execution_time \in ElapsedTimes :
          /\ IF query # None
             THEN \E call \in {mark_failed(TheVal(query), TheVal(uc_error).message, execution_time)} :
                     /\ last_call' = Some([op |-> "mark_failed", receiver |-> TheVal(query),
                                           receiver_after |-> TheVal(query),
                                           raised |-> call.raised, returned |-> call.returned])
                     /\ repository' = Append(repository, TheVal(query))
             ELSE UNCHANGED <<last_call, repository>>
          /\ uc_response' = Some(AnalysisResponse(IF query # None THEN "id" ELSE "new id",
                                     request.question, "unknown", "failed", None,
                                     Some(TheVal(uc_error).message), Some(execution_time)))
    /\ upc' = "returned_failed"
    /\ UNCHANGED <<query, request, uc_error, uc_raised,
                   component_vars, pipeline_vars, construction_vars, shared_vars>>

\* except Exception: a query that exists is handed mark_failed, whose result
\* is dropped, and saved; AnalysisExecutionError is raised
HandleSystemError ==
    /\ upc = "system_error"
    /\ \E execution_time \in ElapsedTimes :
          IF query # None
          THEN \E call \in {mark_failed(TheVal(query), MsgSystemError(TheVal(uc_error).message),
                                        execution_time)} :
                  /\ last_call' = Some([op |-> "mark_failed", receiver |-> TheVal(query),
                                        receiver_after |-> TheVal(query),
                                        raised |-> call.raised, returned |-> call.returned])
                  /\ repository' = Append(repository, TheVal(query))
          ELSE UNCHANGED <<last_call, repository>>
    /\ uc_raised' = Some("AnalysisExecutionError")
    /\ upc' = "raised"
    /\ UNCHANGED <<query, request, uc_error, uc_response,
                   component_vars, pipeline_vars, construction_vars, shared_vars>>

NextUseCase ==
    Submit \/ Prepare \/ Analyse \/ Complete \/ HandleBusinessError \/ HandleSystemError

SpecUseCase == InitUseCase /\ [][NextUseCase]_vars

(***************************************************************************)
(* The analysis pipeline: LLMAnalysisEngine.execute_analysis and the       *)
(* DataGenieLLMProcessor methods it calls.  One request is served at a     *)
(* time; the cache outlives the requests.  The LLM is the environment: its *)
(* answer is a choice among a failure and a few texts.  The text of the    *)
(* generated Python code is not modelled; the outcome of                   *)
(* _validate_python_code on it is a choice.                                *)
(***************************************************************************)
MaxQuestionFrags == 1

\* the limit of _validate_input
MaxQuestionLength == 1000

InjectionQuestion ==
    CharsOfPrompt["ignore"] \o <<" ">> \o CharsOfPrompt["previous"] \o <<" ">>
        \o CharsOfPrompt["instructions"]

QuestionFragments == {
    <<"s", "h", "o", "w", " ", "i", "d">>,
    <<" ">>,
    InjectionQuestion,
    <<ZeroRun>>
}

Questions == TextsOf(QuestionFragments, MaxQuestionFrags)

\* result_data.get('sql', '') of the LLM's answers
LlmSqlTexts == {
    <<>>,
    <<"S", "e", "l", "e", "c", "t", " ", "i", "d">>,
    <<"S", "e", "l", "e", "c", "t", " ", "i", "d", " ", "L", "i", "m", "i", "t", " ", "5">>,
    <<"S", "e", "l", "e", "c", "t", " ", "i", "d", "_", "l", "i", "m", "i", "t", ";">>,
    <<"d", "r", "o", "p", " ", "i", "d">>,
    <<"S", "e", "l", "e", "c", "t", " ", "i", "d", " ", "-", "-">>,
    <<"S", "e", "l", "e", "c", "t", " ", Surrogate>>
}

GeneratedCode == "generated_code"

\* the operations of _generate_cache_key
CacheOperations == {"sql", "excel"}

\* sha256 of operation, question and the context, which is the same mock schema
\* (or mock dataframe) in every request
generate_cache_key(operation, q) == <<operation, q>>

CacheKeys == {generate_cache_key(op, q) : op \in CacheOperations, q \in Questions}

\* "질문이 비어있습니다"
MsgEmptyQuestion == Message("question_is_empty", "")
\* "질문이 너무 깁니다 (최대 1000자)"
MsgQuestionTooLong == Message("question_too_long", "")
\* "프롬프트 인젝션 시도가 감지되었습니다"
MsgInjectionDetected == Message("prompt_injection_detected", "")
\* "LLM 호출 실패: ..." and "LLM 응답을 파싱할 수 없습니다"
MsgLlmFailure == Message("llm_call_or_parse_failed", "")
\* str() of an exception raised below generate_sql_analysis
MsgException(name) == Message("exception", name)
\* "안전하지 않은 SQL: {violations}"
MsgUnsafeSql(violations) == Message("unsafe_sql", violations)
\* "안전하지 않은 Python 코드가 생성되었습니다"
MsgUnsafeCode == Message("unsafe_python_code", "")
\* "SQL 쿼리 생성에 실패했습니다: {e}"
MsgSqlGenerationFailed(e) == Message("sql_query_generation_failed", e)
\* "Excel 분석 코드 생성에 실패했습니다: {e}"
MsgExcelGenerationFailed(e) == Message("excel_code_generation_failed", e)
\* "SQL 생성 실패: {e}"
MsgSqlFailure(e) == Message("sql_generation_failure", e)
\* "Excel 분석 코드 생성 실패: {e}"
MsgExcelFailure(e) == Message("excel_generation_failure", e)
\* "'{question}'에 대한 일반적인 분석입니다. ..."
MsgGeneralAnalysis(q) == Message("general_analysis_of", q)
\* "분석 실행 중 오류가 발생했습니다: {e}"
MsgAnalysisError(e) == Message("analysis_error", e)
\* the explanation the LLM gave with its answer
MsgExplanation == Message("llm_explanation", "")
\* str() of the AttributeError raised on reading a field of a dict
MsgAttributeError == Message("dict_has_no_attribute", "")

\* the message of the ValueError _validate_input raises for q, if it raises
validate_input(q) ==
    IF q = <<>> \/ Strip(q) = <<>> THEN Some(MsgEmptyQuestion)
    ELSE IF StrLen(q) > MaxQuestionLength THEN Some(MsgQuestionTooLong)
    ELSE None

\* the fields of AnalysisResult the pipeline sets apart from mock data
AnalysisResult(type, q, sql_query, generated_code, execution_success, summary) ==
    [analysis_type |-> type, question |-> q, sql_query |-> sql_query,
     generated_code |-> generated_code, execution_success |-> execution_success,
     summary |-> summary]

LLMCall(purpose, q, was_cleared) == [purpose |-> purpose, question |-> q, cleared |-> was_cleared]

InitPipeline ==
    /\ ValidatorOff
    /\ DetectorOff
    /\ MaskerOff
    /\ has_cache \in BOOLEAN
    /\ cache = [k \in CacheKeys |-> None]
    /\ question = <<>>
    /\ ppc = "idle"
    /\ analysis_type = "none"
    /\ cleared = FALSE
    /\ llm_calls = {}
    /\ llm_sql = None
    /\ call_verdict = None
    /\ handed_sql = None
    /\ handed_code = None
    /\ cache_hit = FALSE
    /\ gen_error = None
    /\ response = None
    /\ ServiceOff

\* execute_analysis is entered with a question
SubmitQuestion(q) ==
    /\ ppc \in {"idle", "done"}
    /\ question' = q
    /\ ppc' = "classify"
    /\ analysis_type' = "none"
    /\ cleared' = FALSE
    /\ llm_calls' = {}
    /\ llm_sql' = None
    /\ call_verdict' = None
    /\ handed_sql' = None
    /\ handed_code' = None
    /\ cache_hit' = FALSE
    /\ gen_error' = None
    /\ response' = None
    /\ UNCHANGED <<component_vars, service_vars, has_cache, cache>>

\* where execute_analysis goes with classification.analysis_type
Dispatch(type) ==
    CASE type = "database" -> "sql_input"
      [] type = "excel" -> "excel_input"
      [] OTHER -> "general"

\* classify_question: the question is checked by _validate_input only and then
\* sent to the LLM in the classification prompt; every failure ends in the
\* default classification 'general'
ClassifyQuestion ==
    /\ ppc = "classify"
    /\ IF validate_input(question) # None
       THEN /\ analysis_type' = "general"
            /\ UNCHANGED llm_calls
       ELSE /\ llm_calls' = llm_calls \cup {LLMCall("classify", question, cleared)}
            /\ analysis_type' \in {"database", "excel", "general"}
    /\ ppc' = Dispatch(analysis_type')
    /\ UNCHANGED <<component_vars, service_vars, has_cache, cache, question, cleared, llm_sql, call_verdict,
                   handed_sql, handed_code, cache_hit, gen_error, response>>

\* generate_sql_analysis, steps 1 and 2: _validate_input and detect_injection
SqlCheckInput ==
    /\ ppc = "sql_input"
    /\ IF validate_input(question) # None
       THEN /\ gen_error' = validate_input(question)
            /\ ppc' = "sql_failed"
            /\ UNCHANGED cleared
       ELSE IF detect_injection(question)
       THEN /\ gen_error' = Some(MsgInjectionDetected)
            /\ ppc' = "sql_failed"
            /\ UNCHANGED cleared
       ELSE /\ cleared' = TRUE
            /\ ppc' = "sql_cache"
            /\ UNCHANGED gen_error
    /\ UNCHANGED <<component_vars, service_vars, has_cache, cache, question, analysis_type, llm_calls, llm_sql,
                   call_verdict, handed_sql, handed_code, cache_hit, response>>

\* generate_sql_analysis, step 3: a cached entry is returned as it is; without
\* a cache client, without an entry or when the cache fails the call goes on
SqlCacheLookup ==
    /\ ppc = "sql_cache"
    /\ LET key == generate_cache_key("sql", question)
       IN \E found \in (IF has_cache /\ cache[key] # None THEN BOOLEAN ELSE {FALSE}) :
            IF found
            THEN /\ handed_sql' = cache[key]
                 /\ cache_hit' = TRUE
                 /\ ppc' = "db_result"
            ELSE /\ ppc' = "sql_llm"
                 /\ UNCHANGED <<handed_sql, cache_hit>>
    /\ UNCHANGED <<component_vars, service_vars, has_cache, cache, question, analysis_type, cleared, llm_calls,
                   llm_sql, call_verdict, handed_code, gen_error, response>>

\* generate_sql_analysis, steps 4 to 7: the prompt with the question goes to
\* the LLM; the call or the parsing of the answer may fail
SqlCallLLM ==
    /\ ppc = "sql_llm"
    /\ llm_calls' = llm_calls \cup {LLMCall("sql", question, cleared)}
    /\ \E answer \in {None} \cup {Some(t) : t \in LlmSqlTexts} :
         IF answer = None
         THEN /\ gen_error' = Some(MsgLlmFailure)
              /\ ppc' = "sql_failed"
              /\ UNCHANGED llm_sql
         ELSE /\ llm_sql' = answer
              /\ ppc' = "sql_validate"
              /\ UNCHANGED gen_error
    /\ UNCHANGED <<component_vars, service_vars, has_cache, cache, question, analysis_type, cleared, call_verdict,
                   handed_sql, handed_code, cache_hit, response>>

\* the user_context _execute_database_analysis passes on
UserContext == Some({<<"user_id", "u1">>, <<"connection_id", "c1">>})

\* generate_sql_analysis, step 8: validate_sql on the LLM's SQL; an exception
\* of validate_sql is caught like any other
SqlValidate ==
    /\ ppc = "sql_validate"
    /\ \E call \in {call_validate_sql(FALSE, TheVal(llm_sql), UserContext)} :
          /\ call_verdict' = call.result
          /\ IF call.raised # None
             THEN /\ gen_error' = Some(MsgException(TheVal(call.raised)))
                  /\ ppc' = "sql_failed"
             ELSE IF ~TheVal(call.result).is_safe
             THEN /\ gen_error' = Some(MsgUnsafeSql(TheVal(call.result).violations))
                  /\ ppc' = "sql_failed"
             ELSE /\ ppc' = "sql_return"
                  /\ UNCHANGED gen_error
    /\ UNCHANGED <<component_vars, service_vars, has_cache, cache, question, analysis_type, cleared, llm_calls,
                   llm_sql, handed_sql, handed_code, cache_hit, response>>

\* sql_validation.sanitized_sql or result_data.get('sql', '')
sql_of_result(sql_validation, raw) ==
    IF sql_validation.sanitized_sql # None /\ TheVal(sql_validation.sanitized_sql) # <<>>
    THEN TheVal(sql_validation.sanitized_sql)
    ELSE raw

\* _cache_result: nothing without a cache client; a failure of the cache is
\* swallowed
cache_result(key, value) ==
    IF has_cache
    THEN {cache, [cache EXCEPT ![key] = Some(value)]}
    ELSE {cache}

\* generate_sql_analysis, steps 9 to 11: the result is built, stored in the
\* cache and returned
SqlReturn ==
    /\ ppc = "sql_return"
    /\ LET result_sql == sql_of_result(TheVal(call_verdict), TheVal(llm_sql))
       IN /\ handed_sql' = Some(result_sql)
          /\ cache' \in cache_result(generate_cache_key("sql", question), result_sql)
    /\ ppc' = "db_result"
    /\ UNCHANGED <<component_vars, service_vars, has_cache, question, analysis_type, cleared, llm_calls, llm_sql,
                   call_verdict, handed_code, cache_hit, gen_error, response>>

\* generate_sql_analysis raises LLMProcessingError around the cause, and
\* _execute_database_analysis turns it into a failure result
SqlFailure ==
    /\ ppc = "sql_failed"
    /\ LET e == MsgSqlGenerationFailed(TheVal(gen_error))
       IN response' = Some(AnalysisResult("database", question, None, None, FALSE,
                                          MsgSqlFailure(e)))
    /\ ppc' = "mask"
    /\ UNCHANGED <<component_vars, service_vars, has_cache, cache, question, analysis_type, cleared, llm_calls,
                   llm_sql, call_verdict, handed_sql, handed_code, cache_hit, gen_error>>

\* _execute_database_analysis with the returned value: a SQLGenerationResult
\* becomes the database result; a cached entry is a dict, reading its .sql
\* raises AttributeError, which execute_analysis answers with an error result
DatabaseResult ==
    /\ ppc = "db_result"
    /\ IF cache_hit
       THEN /\ response' = Some(AnalysisResult("error", question, None, None, FALSE,
                                               MsgAnalysisError(MsgAttributeError)))
            /\ ppc' = "done"
       ELSE /\ response' = Some(AnalysisResult("database", question, handed_sql, None, TRUE,
                                               MsgExplanation))
            /\ ppc' = "mask"
    /\ UNCHANGED <<component_vars, service_vars, has_cache, cache, question, analysis_type, cleared, llm_calls,
                   llm_sql, call_verdict, handed_sql, handed_code, cache_hit, gen_error>>

\* generate_excel_analysis, steps 1 and 2
ExcelCheckInput ==
    /\ ppc = "excel_input"
    /\ IF validate_input(question) # None
       THEN /\ gen_error' = validate_input(question)
            /\ ppc' = "excel_failed"
            /\ UNCHANGED cleared
       ELSE IF detect_injection(question)
       THEN /\ gen_error' = Some(MsgInjectionDetected)
            /\ ppc' = "excel_failed"
            /\ UNCHANGED cleared
       ELSE /\ cleared' = TRUE
            /\ ppc' = "excel_cache"
            /\ UNCHANGED gen_error
    /\ UNCHANGED <<component_vars, service_vars, has_cache, cache, question, analysis_type, llm_calls, llm_sql,
                   call_verdict, handed_sql, handed_code, cache_hit, response>>

\* generate_excel_analysis, step 3
ExcelCacheLookup ==
    /\ ppc = "excel_cache"
    /\ LET key == generate_cache_key("excel", question)
       IN \E found \in (IF has_cache /\ cache[key] # None THEN BOOLEAN ELSE {FALSE}) :
            IF found
            THEN /\ handed_code' = cache[key]
                 /\ cache_hit' = TRUE
                 /\ ppc' = "excel_result"
            ELSE /\ ppc' = "excel_llm"
                 /\ UNCHANGED <<handed_code, cache_hit>>
    /\ UNCHANGED <<component_vars, service_vars, has_cache, cache, question, analysis_type, cleared, llm_calls,
                   llm_sql, call_verdict, handed_sql, gen_error, response>>

\* generate_excel_analysis, steps 4 to 7: the LLM call, the parsing and
\* _validate_python_code on the generated code
ExcelCallLLM ==
    /\ ppc = "excel_llm"
    /\ llm_calls' = llm_calls \cup {LLMCall("excel", question, cleared)}
    /\ \E outcome \in {"failed", "unsafe_code", "safe_code"} :
         CASE outcome = "failed" ->
                /\ gen_error' = Some(MsgLlmFailure)
                /\ ppc' = "excel_failed"
           [] outcome = "unsafe_code" ->
                /\ gen_error' = Some(MsgUnsafeCode)
                /\ ppc' = "excel_failed"
           [] outcome = "safe_code" ->
                /\ ppc' = "excel_return"
                /\ UNCHANGED gen_error
    /\ UNCHANGED <<component_vars, service_vars, has_cache, cache, question, analysis_type, cleared, llm_sql,
                   call_verdict, handed_sql, handed_code, cache_hit, response>>

\* generate_excel_analysis, steps 8 to 10
ExcelReturn ==
    /\ ppc = "excel_return"
    /\ handed_code' = Some(GeneratedCode)
    /\ cache' \in cache_result(generate_cache_key("excel", question), GeneratedCode)
    /\ ppc' = "excel_result"
    /\ UNCHANGED <<component_vars, service_vars, has_cache, question, analysis_type, cleared, llm_calls, llm_sql,
                   call_verdict, handed_sql, cache_hit, gen_error, response>>

\* generate_excel_analysis raises LLMProcessingError around the cause, and
\* _execute_excel_analysis turns it into a failure result
ExcelFailure ==
    /\ ppc = "excel_failed"
    /\ LET e == MsgExcelGenerationFailed(TheVal(gen_error))
       IN response' = Some(AnalysisResult("excel", question, None, None, FALSE,
                                          MsgExcelFailure(e)))
    /\ ppc' = "mask"
    /\ UNCHANGED <<component_vars, service_vars, has_cache, cache, question, analysis_type, cleared, llm_calls,
                   llm_sql, call_verdict, handed_sql, handed_code, cache_hit, gen_error>>

\* _execute_excel_analysis with the returned value; a cached entry is a dict
\* and reading its .code raises AttributeError
ExcelResult ==
    /\ ppc = "excel_result"
    /\ IF cache_hit
       THEN /\ response' = Some(AnalysisResult("error", question, None, None, FALSE,
                                               MsgAnalysisError(MsgAttributeError)))
            /\ ppc' = "done"
       ELSE /\ response' = Some(AnalysisResult("excel", question, None, handed_code, TRUE,
                                               MsgExplanation))
            /\ ppc' = "mask"
    /\ UNCHANGED <<component_vars, service_vars, has_cache, cache, question, analysis_type, cleared, llm_calls,
                   llm_sql, call_verdict, handed_sql, handed_code, cache_hit, gen_error>>

\* _execute_general_analysis: the summary quotes the question
GeneralResult ==
    /\ ppc = "general"
    /\ response' = Some(AnalysisResult("general", question, None, None, TRUE,
                                       MsgGeneralAnalysis(question)))
    /\ ppc' = "mask"
    /\ UNCHANGED <<component_vars, service_vars, has_cache, cache, question, analysis_type, cleared, llm_calls,
                   llm_sql, call_verdict, handed_sql, handed_code, cache_hit, gen_error>>

\* _apply_pii_masking masks result.data only: the fields kept here are copied
\* over, and execute_analysis returns the result
ApplyPiiMasking ==
    /\ ppc = "mask"
    /\ ppc' = "done"
    /\ UNCHANGED <<component_vars, service_vars, has_cache, cache, question, analysis_type, cleared, llm_calls,
                   llm_sql, call_verdict, handed_sql, handed_code, cache_hit, gen_error, response>>

\* an entry of the cache reaches the end of its time to live (setex, one hour)
CacheExpire(key) ==
    /\ has_cache
    /\ cache[key] # None
    /\ cache' = [cache EXCEPT ![key] = None]
    /\ UNCHANGED <<component_vars, service_vars, has_cache, question, ppc, analysis_type, cleared, llm_calls,
                   llm_sql, call_verdict, handed_sql, handed_code, cache_hit, gen_error, response>>

NextPipeline ==
    \/ \E q \in Questions : SubmitQuestion(q)
    \/ ClassifyQuestion
    \/ SqlCheckInput
    \/ SqlCacheLookup
    \/ SqlCallLLM
    \/ SqlValidate
    \/ SqlReturn
    \/ SqlFailure
    \/ DatabaseResult
    \/ ExcelCheckInput
    \/ ExcelCacheLookup
    \/ ExcelCallLLM
    \/ ExcelReturn
    \/ ExcelFailure
    \/ ExcelResult
    \/ GeneralResult
    \/ ApplyPiiMasking
    \/ \E key \in CacheKeys : CacheExpire(key)

SpecPipeline == InitPipeline /\ [][NextPipeline]_vars

(***************************************************************************)
(* Properties of the validator.  The predicates below speak about the      *)
(* input text itself and are written apart from the validator's stages.    *)
(***************************************************************************)
ThreatRank(level) ==
    CASE level = LOW -> 1 [] level = MEDIUM -> 2 [] level = HIGH -> 3 [] level = CRITICAL -> 4

MaxLevel(levels) == CHOOSE l \in levels : \A m \in levels : ThreatRank(m) <= ThreatRank(l)

Keywords == {FORBIDDEN_SQL_KEYWORDS[i] : i \in 1..Len(FORBIDDEN_SQL_KEYWORDS)}

\* keyword stands in s as a whole word, in any letter case
ContainsWholeWord(s, keyword) == Search(<<WB, L(keyword), WB>>, s, TRUE)
HasForbiddenKeyword(s) == \E k \in Keywords : ContainsWholeWord(s, k)
MatchesDangerous(s) ==
    \E i \in 1..Len(DANGEROUS_SQL_PATTERNS) : Search(DANGEROUS_SQL_PATTERNS[i].re, s, TRUE)
MatchesSuspicious(s) ==
    \E i \in 1..Len(SUSPICIOUS_PATTERNS) : Search(SUSPICIOUS_PATTERNS[i].re, s, TRUE)
IsBlank(s) == \A i \in 1..Len(s) : IsSpace(s[i])
\* s holds a LIMIT clause: LIMIT as a word of its own, in any letter case
HasLimitClause(s) == ContainsWholeWord(s, "LIMIT")
\* s holds "--", or a "/*" closed by a later "*/" on the same or a later line
HasCommentToken(s) ==
    \/ Contains(s, CharsOf["--"])
    \/ \E i \in 1..Len(s) : \E j \in (i + 2)..Len(s) :
          LitAt(s, i, CharsOf["/*"], FALSE) /\ LitAt(s, j, CharsOf["*/"], FALSE)

\* the verdicts returned so far, each with the text it was returned for
Returned ==
    {[text |-> sql, v |-> r] : r \in verdict}
    \cup {[text |-> TheVal(TheVal(verdict).sanitized_sql), v |-> r] : r \in reverdict}

\* C1: a text that holds a forbidden keyword as a whole word, in any letter
\* case, gets is_safe = FALSE, threat_level = CRITICAL, a violation naming the
\* keyword and is_execution_allowed() = FALSE, whatever else it holds and
\* whatever its length.
C1_ForbiddenKeywordIsCritical ==
    \A x \in Returned : \A k \in Keywords :
        ContainsWholeWord(x.text, k) =>
            /\ x.v.is_safe = FALSE
            /\ x.v.threat_level = CRITICAL
            /\ \E i \in 1..Len(x.v.violations) : x.v.violations[i] = MsgForbiddenKeyword(k)
            /\ ~is_execution_allowed(x.v)

\* C4: every verdict, the one of the empty-SQL short circuit included, is safe
\* exactly when its list of violations is empty.
C4_SafeIffNoViolations ==
    \A x \in Returned : (x.v.is_safe <=> x.v.violations = <<>>) /\ (has_violations(x.v) <=> ~x.v.is_safe)

\* C4 witness: the stages have returned an unsafe verdict whose level is not
\* CRITICAL and whose list of violations is not empty.
C4_Witness ==
    /\ vpc = "validated"
    /\ ~IsBlank(sql)
    /\ ~TheVal(verdict).is_safe
    /\ TheVal(verdict).threat_level = HIGH
    /\ has_violations(TheVal(verdict))

\* the levels raised by the stages that trigger on s
StageLevels(s) ==
    {LOW}
    \cup (IF HasForbiddenKeyword(s) THEN {CRITICAL} ELSE {})
    \cup (IF MatchesDangerous(s) THEN {HIGH} ELSE {})
    \cup (IF MatchesSuspicious(s) THEN {MEDIUM} ELSE {})
    \cup (IF ~is_select_query(s) THEN {CRITICAL} ELSE {})
    \cup (IF StrLen(s) > MAX_SQL_LENGTH THEN {HIGH} ELSE {})

\* C5: the threat level of a verdict of the stages is the highest level raised
\* by a stage that triggered; no later stage lowers it.
C5_LevelIsMaximum ==
    \A x \in Returned : ~IsBlank(x.text) => x.v.threat_level = MaxLevel(StageLevels(x.text))

\* C6: HIGH or CRITICAL exactly with violations, MEDIUM exactly with warnings
\* and no violation, LOW exactly with neither; CRITICAL never comes with
\* is_safe, and is_execution_allowed() equals is_safe.
C6_LevelMatchesFindings ==
    \A x \in Returned :
        /\ x.v.threat_level \in {HIGH, CRITICAL} <=> x.v.violations # <<>>
        /\ x.v.threat_level = MEDIUM <=> (x.v.violations = <<>> /\ x.v.warnings # <<>>)
        /\ x.v.threat_level = LOW <=> (x.v.violations = <<>> /\ x.v.warnings = <<>>)
        /\ ~(x.v.threat_level = CRITICAL /\ x.v.is_safe)
        /\ is_execution_allowed(x.v) = x.v.is_safe

\* C6 witness: a suspicious pattern alone gives a safe MEDIUM verdict with a warning.
C6_Witness ==
    /\ vpc = "validated"
    /\ MatchesSuspicious(sql)
    /\ TheVal(verdict).threat_level = MEDIUM
    /\ TheVal(verdict).is_safe
    /\ TheVal(verdict).warnings # <<>>

\* C7: a SELECT statement (first word SELECT) that matches no dangerous
\* pattern and is at most 10 KB long is safe and its sanitized SQL holds a
\* LIMIT clause.  "Free of dangerous patterns" is read in the claim's favour:
\* the text holds no forbidden keyword either.
C7_SafeSelectIsCapped ==
    \A x \in Returned :
        (/\ is_select_query(x.text)
         /\ ~HasForbiddenKeyword(x.text)
         /\ ~MatchesDangerous(x.text)
         /\ StrLen(x.text) <= MAX_SQL_LENGTH)
        => /\ x.v.is_safe
           /\ x.v.sanitized_sql # None
           /\ HasLimitClause(TheVal(x.v.sanitized_sql))

\* C8: sanitized SQL is produced exactly without violations; a query with a
\* LIMIT clause comes back unchanged, any other query comes back without its
\* trailing blanks and semicolons, followed by " LIMIT 1000".
C8_LimitNormalization ==
    \A x \in Returned :
        /\ x.v.sanitized_sql # None <=> x.v.violations = <<>>
        /\ x.v.sanitized_sql # None =>
              TheVal(x.v.sanitized_sql) =
                  IF HasLimitClause(x.text) THEN x.text
                  ELSE RStripSemicolons(RStrip(x.text)) \o CharsOf[" LIMIT 1000"]

\* C9 as stated: the sanitized SQL of a safe verdict is safe again, for safe
\* inputs of every length.
C9_SanitizedIsSafeAgain ==
    \A r \in reverdict : r.is_safe

\* C9 as amended: the sanitized SQL of a safe verdict is safe again whenever it
\* is itself at most MAX_SQL_LENGTH characters long.
C9_SanitizedWithinCeilingIsSafeAgain ==
    \A r \in reverdict :
        StrLen(TheVal(TheVal(verdict).sanitized_sql)) <= MAX_SQL_LENGTH => r.is_safe

\* C9 witness: the row cap was appended and the capped text was found safe.
C9_Witness ==
    /\ vpc = "revalidated"
    /\ TheVal(TheVal(verdict).sanitized_sql) # sql
    /\ TheVal(reverdict).is_safe

\* C10: a text that holds "--" or a block comment, on one line or over
\* several, is unsafe with threat level HIGH or CRITICAL.
C10_CommentIsUnsafe ==
    \A x \in Returned :
        HasCommentToken(x.text) => ~x.v.is_safe /\ x.v.threat_level \in {HIGH, CRITICAL}

\* C11: when the first word of a text, comments and surrounding blanks
\* removed, is not SELECT, or nothing but comments is there, the verdict holds
\* the SELECT-only violation, is not safe and has threat level CRITICAL.
C11_NonSelectIsCritical ==
    \A x \in Returned :
        (~IsBlank(x.text) /\ ~is_select_query(x.text)) =>
            /\ \E i \in 1..Len(x.v.violations) : x.v.violations[i] = MsgSelectOnly
            /\ ~x.v.is_safe
            /\ x.v.threat_level = CRITICAL

\* C12 as stated: a blank text is answered at once with threat level
\* CRITICAL, exactly one violation, is_safe = FALSE and no sanitized SQL.
C12_BlankIsCritical ==
    \A x \in Returned :
        IsBlank(x.text) =>
            /\ x.v.threat_level = CRITICAL
            /\ Len(x.v.violations) = 1
            /\ ~x.v.is_safe
            /\ x.v.sanitized_sql = None

\* C12 as amended: a blank text is answered at once with threat level HIGH,
\* the empty-SQL violation as its only violation, is_safe = FALSE, no
\* sanitized SQL and no finding of a later stage.
C12_BlankIsHigh ==
    \A x \in Returned :
        IsBlank(x.text) =>
            /\ x.v.threat_level = HIGH
            /\ x.v.violations = <<MsgEmptySql>>
            /\ ~x.v.is_safe
            /\ x.v.sanitized_sql = None
            /\ x.v.warnings = <<>>

\* C12 witness: a text made of blanks only has been answered.
C12_Witness ==
    /\ vpc = "validated"
    /\ sql # <<>>
    /\ IsBlank(sql)
    /\ TheVal(verdict).violations = <<MsgEmptySql>>

\* C13: validate_sql never raises: for a text, the empty text, a blank text
\* or None, with any context map or none, it returns a verdict; for an empty
\* input the verdict is unsafe with the empty-SQL violation.
C13_NeverRaises ==
    /\ raised = None
    /\ vpc # "input" => verdict # None
    /\ \A v \in verdict :
          (sql_is_none \/ IsBlank(sql)) =>
              ~v.is_safe /\ \E i \in 1..Len(v.violations) : v.violations[i] = MsgEmptySql

(***************************************************************************)
(* Properties of the detector.                                             *)
(***************************************************************************)
\* the role-spoofing markers: system:, assistant:, user: and their Korean
\* equivalents
RoleMarkers == {
    <<"s", "y", "s", "t", "e", "m", ":">>,
    <<"a", "s", "s", "i", "s", "t", "a", "n", "t", ":">>,
    <<"u", "s", "e", "r", ":">>,
    CharsOfPrompt["U+C2DCU+C2A4U+D15C"] \o <<":">>,
    CharsOfPrompt["U+C5B4U+C2DCU+C2A4U+D134U+D2B8"] \o <<":">>,
    CharsOfPrompt["U+C0ACU+C6A9U+C790"] \o <<":">>
}

\* phrase stands somewhere in s, in any letter case
ContainsIgnoreCase(s, phrase) == Contains(Upper(s), Upper(phrase))

HasRoleMarker(s) == \E m \in RoleMarkers : ContainsIgnoreCase(s, m)

\* C14: detect_injection answers True for every text that holds an injection
\* phrase of a configured category, in any letter case and anywhere in the
\* text; in particular for the role markers system:, assistant:, user: and
\* their Korean equivalents.
C14_RoleMarkerIsDetected ==
    \A d \in detected : (~input_is_none /\ HasRoleMarker(input_text)) => d

\* open stands in s and close stands after it, on the same or a later line
HasBracketed(s, open, close) ==
    \E i \in 1..Len(s) : \E j \in (i + Len(open))..Len(s) :
        LitAt(s, i, open, FALSE) /\ LitAt(s, j, close, FALSE)

HasFencedBlock(s) ==
    HasBracketed(s, CharsOfPrompt["U+0060U+0060U+0060"], CharsOfPrompt["U+0060U+0060U+0060"])

HasControlToken(s) == HasBracketed(s, CharsOfPrompt["<|"], CharsOfPrompt["|>"])

\* C15: detect_injection answers True for every text that holds a fenced code
\* block (three backticks ... three backticks) or a control token (<| ... |>),
\* written on one line or over several.
C15_BlockOrTokenIsDetected ==
    \A d \in detected :
        (~input_is_none /\ (HasFencedBlock(input_text) \/ HasControlToken(input_text))) => d

\* C16: detect_injection answers False for None, for the empty text and for
\* a blank text; sanitize_input raises exactly when detect_injection answers
\* True for its input, and returns no text then.
C16_SanitizeRaisesOnlyOnDetection ==
    /\ \A d \in detected : (input_is_none \/ IsBlank(input_text)) => ~d
    /\ dpc = "sanitized" =>
          /\ sanitize_raised # None <=> TheVal(detected)
          /\ sanitize_raised # None => sanitized = None
          /\ sanitize_raised = None => sanitized # None

RECURSIVE Words(_)
\* the words of s: its maximal runs of characters that are not blank
Words(s) ==
    LET t == LStrip(s)
    IN IF t = <<>> THEN <<>>
       ELSE LET w == FirstWord(t)
            IN <<w>> \o Words(SubSeq(t, Len(w) + 1, Len(t)))

RECURSIVE JoinWords(_)
\* the words of ws in their order, one space between neighbours
JoinWords(ws) ==
    IF ws = <<>> THEN <<>>
    ELSE IF Len(ws) = 1 THEN ws[1]
    ELSE ws[1] \o <<" ">> \o JoinWords(Tail(ws))

\* the characters of s that are not blank, in their order
NonBlank(s) == SelectSeq(s, LAMBDA c : ~IsSpace(c))

\* C17: for a text that is not empty and in which no injection is detected,
\* sanitize_input returns the text without leading and trailing blanks and
\* with every inner run of blanks replaced by one space; the characters that
\* are not blank are kept in their order and nothing else is changed.
C17_SanitizeNormalizesBlanks ==
    (dpc = "sanitized" /\ ~input_is_none /\ input_text # <<>> /\ ~TheVal(detected)) =>
        /\ sanitized = Some(JoinWords(Words(input_text)))
        /\ NonBlank(TheVal(sanitized)) = NonBlank(input_text)

\* C17 witness: a text with a leading blank and an inner run of blanks that
\* is not one space has been sanitized.
C17_Witness ==
    /\ dpc = "sanitized"
    /\ sanitized # None
    /\ Len(input_text) > 0 /\ IsSpace(input_text[1])
    /\ Len(Words(input_text)) >= 2
    /\ Len(TheVal(sanitized)) + 2 < Len(input_text)

(***************************************************************************)
(* Properties of the masker.                                               *)
(***************************************************************************)
JohnAtX == <<"j", "o", "h", "n", "@", "x", ".", "c", "o", "m">>

RECURSIVE SameShape(_, _)
\* do a and b agree in everything but the texts of their string leaves: the
\* same kinds of containers, the same keys, the same lengths, the same order,
\* and the same leaf wherever the leaf is no text
SameShape(a, b) ==
    /\ a.kind = b.kind
    /\ CASE a.kind = "str" -> TRUE
         [] a.kind \in {"dict", "list", "tuple"} ->
               /\ a.keys = b.keys
               /\ Len(a.items) = Len(b.items)
               /\ \A i \in 1..Len(a.items) : SameShape(a.items[i], b.items[i])
         [] OTHER -> a = b

\* C18: masked_data has the container kinds, the dict keys, the list and
\* tuple lengths and the element order of the value handed to mask_data;
\* only the texts of string leaves may differ and every other leaf is
\* returned as it was; original_data is the value handed in, and that value
\* is after the call what it was before.
C18_ShapeIsPreserved ==
    masking_result # None =>
        /\ SameShape(mask_input, TheVal(masking_result).masked_data)
        /\ TheVal(masking_result).original_data = mask_input

\* C18 witness: a dict holding a tuple with a leaf that is no text, and a
\* text that mask_data changed, has been masked.
C18_Witness ==
    /\ masking_result # None
    /\ mask_input.kind = "dict"
    /\ Len(mask_input.items) = 2
    /\ mask_input.items[1] = TupleV(<<IntV(7)>>)
    /\ mask_input.items[2].kind = "str"
    /\ TheVal(masking_result).masked_data.items[2] # mask_input.items[2]

\* the pattern of the email category
EmailPattern == PII_PATTERNS[1].pattern

\* the email addresses of the text t, as finditer finds them
EmailsIn(t) ==
    LET found == FindIter(EmailPattern, t, TRUE)
    IN {SubSeq(t, found[k].start, found[k].stop - 1) : k \in 1..Len(found)}

\* '@domain' of an email address
AtDomain(email) == DropFirst(email, IndexOf(email, "@") - 1)

RECURSIVE HasEmailLeaf(_)
\* does the value hold a string leaf with an email address in it
HasEmailLeaf(a) ==
    CASE a.kind = "str" -> EmailsIn(a.text) # {}
      [] a.kind \in {"dict", "list", "tuple"} -> \E i \in 1..Len(a.items) : HasEmailLeaf(a.items[i])
      [] OTHER -> FALSE

RECURSIVE EmailLeavesMasked(_, _)
\* b stands where a stood: every string leaf of a with an email address in it
\* differs in b, no longer shows the address, and still shows its '@domain'
EmailLeavesMasked(a, b) ==
    CASE a.kind = "str" ->
            \A e \in EmailsIn(a.text) :
                /\ b.text # a.text
                /\ ~Contains(b.text, e)
                /\ Contains(b.text, AtDomain(e))
      [] a.kind \in {"dict", "list", "tuple"} ->
            \A i \in 1..Len(a.items) : EmailLeavesMasked(a.items[i], b.items[i])
      [] OTHER -> TRUE

\* C19: for a value with a string leaf that matches the email pattern,
\* mask_data answers masking_applied with a finding recorded, and that leaf
\* of masked_data differs from the original: its local part is masked and
\* its '@domain' is kept; mask_data({"email": "john@x.com"}) yields
\* {"email": "j***@x.com"}.
C19_EmailLeafIsMasked ==
    (masking_result # None /\ HasEmailLeaf(mask_input)) =>
        /\ TheVal(masking_result).masking_applied
        /\ TheVal(masking_result).detected_pii # <<>>
        /\ EmailLeavesMasked(mask_input, TheVal(masking_result).masked_data)
        /\ mask_input = DictV(<<"email">>, <<StrV(JohnAtX)>>) =>
              TheVal(masking_result).masked_data
                  = DictV(<<"email">>, <<StrV(<<"j", "*", "*", "*", "@", "x", ".", "c", "o", "m">>)>>)

\* the categories whose confidence reaches the threshold of the masker
ActiveCategories ==
    {k \in 1..Len(PII_PATTERNS) : PII_PATTERNS[k].confidence >= masker_min_confidence}

\* the active categories whose pattern is found in the text t
ActiveIn(t) == {k \in ActiveCategories : Found(PII_PATTERNS[k].pattern, t, TRUE)}

RECURSIVE StringLeaves(_)
\* the texts of the string leaves of a value
StringLeaves(a) ==
    CASE a.kind = "str" -> {a.text}
      [] a.kind \in {"dict", "list", "tuple"} ->
            UNION {StringLeaves(a.items[i]) : i \in 1..Len(a.items)}
      [] OTHER -> {}

\* the types of a sequence of findings or of types
TypesOf(q) == {q[i] : i \in 1..Len(q)}

IpText == <<"1", ".", "2", ".", "3", ".", "4">>
AccountText == <<"1", "2", "3", "4", "5", "6", "7", "8", "9", "0">>

\* C20: a category is scanned and masked exactly when its confidence is
\* greater than or equal to min_confidence, and mask_data, detect_pii_types
\* and is_sensitive_data agree on it: no finding and no detected type is of a
\* category below the threshold; a text is left as it is exactly when no
\* active category is found in it, and otherwise carries a finding of the
\* first active category found in it; detect_pii_types names exactly the
\* active categories found in the text; is_sensitive_data answers true
\* exactly when an active category is found in some string leaf.  With the
\* default threshold an IP address is masked, detected and sensitive, and a
\* bank account number is none of these.
C20_ThresholdDecidesCategories ==
    mpc = "answered" =>
        LET result == TheVal(masking_result)
            found == {result.detected_pii[i].pii_type : i \in 1..Len(result.detected_pii)}
            active_leaves == {t \in StringLeaves(mask_input) : ActiveIn(t) # {}}
        IN /\ \A i \in 1..Len(result.detected_pii) :
                 result.detected_pii[i].confidence >= masker_min_confidence
           /\ found \subseteq {PII_PATTERNS[k].pii_type : k \in ActiveCategories}
           /\ result.masking_applied = (active_leaves # {})
           /\ (result.masked_data = mask_input) = (active_leaves = {})
           /\ \A t \in active_leaves :
                 LET first == CHOOSE k \in ActiveIn(t) : \A m \in ActiveIn(t) : k <= m
                 IN PII_PATTERNS[first].pii_type \in found
           /\ TheVal(sensitive) = (active_leaves # {})
           /\ mask_input.kind = "str" =>
                 /\ TheVal(pii_types).raised = None
                 /\ TypesOf(TheVal(TheVal(pii_types).result))
                       = {PII_PATTERNS[k].pii_type : k \in ActiveIn(mask_input.text)}
           /\ masker_min_confidence = DEFAULT_MIN_CONFIDENCE =>
                 /\ "bank_account" \notin found
                 /\ mask_input = StrV(IpText) =>
                       /\ result.masked_data # mask_input
                       /\ "ip_address" \in found
                       /\ TheVal(TheVal(pii_types).result) = <<"ip_address">>
                       /\ TheVal(sensitive)
                 /\ mask_input = StrV(AccountText) =>
                       /\ result.masked_data = mask_input
                       /\ TheVal(TheVal(pii_types).result) = <<>>
                       /\ ~TheVal(sensitive)

\* C20 witness: a masker with the default threshold has been asked about a
\* list of an IP address and a bank account number; the address was masked,
\* the account number was not.
C20_Witness ==
    /\ mpc = "answered"
    /\ masker_min_confidence = DEFAULT_MIN_CONFIDENCE
    /\ mask_input = ListV(<<StrV(IpText), StrV(AccountText)>>)
    /\ TheVal(masking_result).masked_data.items[1] # StrV(IpText)
    /\ TheVal(masking_result).masked_data.items[2] = StrV(AccountText)
    /\ TheVal(sensitive)

C28_SanitizedTextIsCleanAndStable ==
    sanitized # None =>
        /\ ~detect_injection(TheVal(sanitized))
        /\ call_sanitize_input(FALSE, TheVal(sanitized)).result = sanitized

\* C29: the sanitized SQL of a verdict holds LIMIT as a word of its own, and
\* a query that holds it only inside a longer name is returned with the cap
\* " LIMIT 1000" appended
C29_SanitizedSqlHoldsLimitKeyword ==
    (verdict # None /\ TheVal(verdict).sanitized_sql # None) =>
        /\ ContainsWholeWord(TheVal(TheVal(verdict).sanitized_sql), "LIMIT")
        /\ ~ContainsWholeWord(sql, "LIMIT") =>
              TheVal(TheVal(verdict).sanitized_sql)
                  = RStripSemicolons(RStrip(sql)) \o CharsOf[" LIMIT 1000"]

(***************************************************************************)
(* Properties of the masker on texts with several matches.                 *)
(***************************************************************************)
\* the text from place from on, with the matches j, j + 1, ... of a category
\* replaced by their masks at once: the pieces between the matches and the
\* values masked are those of the text itself
RECURSIVE SubstituteFrom(_, _, _, _, _)
SubstituteFrom(text, matches, j, from, pii_type) ==
    IF j > Len(matches) THEN SubSeq(text, from, Len(text))
    ELSE SubSeq(text, from, matches[j].start - 1)
            \o generate_mask(SubSeq(text, matches[j].start, matches[j].stop - 1), pii_type)
            \o SubstituteFrom(text, matches, j + 1, matches[j].stop, pii_type)

\* the categories k, k + 1, ... in the order of their declaration, each one
\* substituted at once in the text the one before it produced
RECURSIVE SubstituteCategories(_, _, _)
SubstituteCategories(k, text, min_confidence) ==
    IF k > Len(PII_PATTERNS) THEN text
    ELSE IF PII_PATTERNS[k].confidence < min_confidence
    THEN SubstituteCategories(k + 1, text, min_confidence)
    ELSE SubstituteCategories(k + 1,
            SubstituteFrom(text, FindIter(PII_PATTERNS[k].pattern, text, TRUE), 1, 1,
                           PII_PATTERNS[k].pii_type),
            min_confidence)

\* C25: the text _mask_string returns is the text with, category after
\* category in the order of declaration, all matches of the category
\* replaced by their masks at once, whatever the lengths of the masks
C25_MaskingIsSimultaneousSubstitution ==
    (mpc = "masked" /\ mask_input.kind = "str") =>
        TheVal(masking_result).masked_data.text
            = SubstituteCategories(1, mask_input.text, masker_min_confidence)

\* C25: a text with two IP addresses, whose masks are longer than the
\* addresses, has been masked
C25_Witness ==
    /\ mpc = "masked"
    /\ mask_input.text = <<"1", ".", "2", ".", "3", ".", "4", " ", "1", ".", "2", ".", "3", ".", "4">>
    /\ masker_min_confidence = 60
    /\ Len(TheVal(masking_result).detected_pii) = 2
    /\ Len(TheVal(masking_result).masked_data.text) > Len(mask_input.text)

\* C30: every finding of mask_data on a text lies in the text handed in: the
\* value of the finding stands at the position of the finding
C30_FindingLiesAtItsPosition ==
    (mpc = "masked" /\ mask_input.kind = "str") =>
        \A i \in 1..Len(TheVal(masking_result).detected_pii) :
            LET finding == TheVal(masking_result).detected_pii[i]
                stop == finding.position + Len(finding.original_value)
            IN /\ stop <= Len(mask_input.text)
               /\ SubSeq(mask_input.text, finding.position + 1, stop) = finding.original_value

(***************************************************************************)
(* Properties of the construction of the classifiers.                      *)
(***************************************************************************)
\* C22: when a configured pattern does not compile the constructor raises:
\* no instance with a part of its rules is returned, and no call is served
\* with a rule missing (the answer is that of the full table)
C22_NoPartiallyBuiltClassifier ==
    /\ masker # None =>
          /\ uncompilable \cap PiiPatternIds = {}
          /\ Len(TheVal(masker).compiled_patterns) = Len(PII_PATTERNS)
    /\ validator # None =>
          /\ uncompilable \cap ValidatorPatternIds = {}
          /\ Len(TheVal(validator).compiled_dangerous_patterns) = Len(DANGEROUS_SQL_PATTERNS)
          /\ Len(TheVal(validator).compiled_suspicious_patterns) = Len(SUSPICIOUS_PATTERNS)
    /\ served # None =>
          TheVal(served).pii_types
              = detect_pii_types(TheVal(served).text, TheVal(masker).min_confidence)

(***************************************************************************)
(* Properties of the calls in flight on the shared classifiers.            *)
(***************************************************************************)
\* what the call of a frame returns when it runs alone
AloneResult(f) ==
    CASE f.op = "validate_sql" ->
            [verdict |-> Some(validate_sql(f.arg)), masking |-> None, answer |-> None]
      [] f.op = "mask_data" ->
            [verdict |-> None,
             masking |-> Some(mask_data(StrV(f.arg), TheVal(masker).min_confidence)),
             answer |-> None]
      [] f.op = "detect_injection" ->
            [verdict |-> None, masking |-> None, answer |-> Some(detect_injection(f.arg))]

\* C23: a call on a shared instance returns what it returns when it runs
\* alone on its input, however the calls of the other caller fall between
\* its steps, and the compiled rule sets stay as the constructors left them
C23_CallsDoNotInterfere ==
    /\ \A c \in Callers :
          frames[c].done =>
              [verdict |-> frames[c].verdict, masking |-> frames[c].masking,
               answer |-> frames[c].answer] = AloneResult(frames[c])
    /\ masker = PIIMasker_init(DEFAULT_MIN_CONFIDENCE, {}).instance
    /\ validator = SQLSecurityValidator_init({}).instance

\* C23: two calls of mask_data that ran into each other have returned, each
\* with findings of its own text
C23_Witness ==
    /\ \A c \in Callers :
          /\ frames[c].op = "mask_data"
          /\ frames[c].done
          /\ frames[c].overlapped
          /\ TheVal(frames[c].masking).masking_applied
    /\ frames[1].arg # frames[2].arg

(***************************************************************************)
(* Properties of the analysis query and of the use case.                   *)
(***************************************************************************)
\* the transitions of the status the entity is to allow
AllowedTransitions ==
    {<<PENDING, PROCESSING>>, <<PENDING, COMPLETED>>, <<PROCESSING, COMPLETED>>,
     <<PENDING, FAILED>>, <<PROCESSING, FAILED>>}

\* C26: when execute has returned after the engine answered, the query saved
\* last is COMPLETED with the measured time and the response reports
\* completed; when execute has failed with the query created, the query
\* saved last is FAILED and carries an error message
C26_SavedQueryReflectsOutcome ==
    /\ upc = "returned" =>
          /\ repository # <<>>
          /\ repository[Len(repository)].status = COMPLETED
          /\ repository[Len(repository)].execution_time_ms
                = TheVal(uc_response).execution_time_ms
          /\ TheVal(uc_response).status = COMPLETED
    /\ (upc \in {"returned_failed", "raised"} /\ query # None) =>
          /\ repository # <<>>
          /\ repository[Len(repository)].status = FAILED
          /\ repository[Len(repository)].error_message # None

\* C27: a mark_* call that returns an instance takes the status along an
\* allowed transition; mark_processing raises unless the receiver is
\* PENDING, mark_completed unless it is PENDING or PROCESSING; of a receiver
\* that is COMPLETED or FAILED no instance with another status is made; the
\* receiver is as it was
C27_StatusFollowsTheTransitions ==
    last_call # None =>
        LET call == TheVal(last_call)
        IN /\ call.returned # None =>
                 <<call.receiver.status, TheVal(call.returned).status>> \in AllowedTransitions
           /\ (call.op = "mark_processing" /\ call.receiver.status # PENDING) =>
                 call.raised = Some("InvalidStateTransitionError")
           /\ (call.op = "mark_completed" /\ call.receiver.status \notin {PENDING, PROCESSING}) =>
                 call.raised = Some("InvalidStateTransitionError")
           /\ (call.receiver.status \in {COMPLETED, FAILED} /\ call.returned # None) =>
                 TheVal(call.returned).status = call.receiver.status
           /\ call.receiver_after = call.receiver

(***************************************************************************)
(* Properties of the pipeline.                                             *)
(***************************************************************************)
\* C2: generate_sql_analysis hands a SQL text to its caller only after
\* validate_sql has returned, within the same call, a verdict for it that
\* allows execution, and the SQL handed over is the sanitized SQL of that
\* verdict; after an unsafe verdict no SQL is handed over.  This is stated
\* for every path, the cache hit included.
C2_HandedSqlWasValidatedInTheCall ==
    /\ handed_sql # None =>
          /\ call_verdict # None
          /\ is_execution_allowed(TheVal(call_verdict))
          /\ handed_sql = TheVal(call_verdict).sanitized_sql
    /\ (call_verdict # None /\ ~TheVal(call_verdict).is_safe) => handed_sql = None

\* C3: no LLM call of a request carries the question unless detect_injection
\* has returned False for it earlier in the request, and a question that the
\* detector flags reaches the LLM in no prompt.
C3_NoLlmCallBeforeDetection ==
    \A c \in llm_calls : c.cleared /\ ~detect_injection(c.question)

\* C24: a request the injection detector or the SQL validator has rejected is
\* answered with a generic message only: the summary of the result does not
\* carry the violation list of the validator, the result holds no SQL, and
\* the rejected question is not part of it
C24_RejectionIsGeneric ==
    (/\ response # None
     /\ gen_error # None
     /\ TheVal(gen_error).msg \in {"unsafe_sql", "prompt_injection_detected"}) =>
        LET r == TheVal(response)
            cause == r.summary.arg.arg
        IN /\ cause.msg # "unsafe_sql"
           /\ r.sql_query = None
           /\ TheVal(gen_error).msg = "prompt_injection_detected" => r.question # question

====
